---- MODULE Spec2Model ----
(***************************************************************************)
(* json-config-sync: the configuration normalizer (normalizeConfig) with   *)
(* the merge engine and the environment interpolator it drives.            *)
(*                                                                         *)
(* JSON values are trees.  A string is a sequence of one-character         *)
(* strings.  Every mutable container (object, array) carries the identity  *)
(* `id` of the allocation that created it, so that aliasing between the    *)
(* raw document and the normalized output is observable: two containers    *)
(* are the same JavaScript object exactly when their ids are equal.        *)
(***************************************************************************)
EXTENDS Integers, Sequences, FiniteSets, TLC

\* ------------------------------------------------------------------ bounds
MaxRepos == 2      \* raw repo entries in a document
MaxUrls == 2       \* URLs in one git array
MaxCalls == 2      \* calls of normalizeConfig on the same document

\* ------------------------------------------------------------- JSON values
Str(s) == [t |-> "str", s |-> s]
Num(n) == [t |-> "num", n |-> n]
KV(k, v) == [k |-> k, v |-> v]
Obj(kv) == [t |-> "obj", id |-> <<>>, kv |-> kv]
Arr(el) == [t |-> "arr", id |-> <<>>, el |-> el]

isPlainObject(v) == v.t = "obj"
isArray(v) == v.t = "arr"

Keys(o) == {o.kv[i].k : i \in DOMAIN o.kv}
HasKey(o, k) == k \in Keys(o)
KeyIndex(o, k) == CHOOSE i \in DOMAIN o.kv : o.kv[i].k = k
ValueAt(o, k) == o.kv[KeyIndex(o, k)].v

RECURSIVE Flatten(_)
Flatten(ss) == IF ss = <<>> THEN <<>> ELSE Head(ss) \o Flatten(Tail(ss))

\* The value v held in freshly allocated containers.  The new containers are
\* named by the allocation site `p` and their position below it.
RECURSIVE Realloc(_, _)
Realloc(v, p) ==
  IF v.t = "obj"
    THEN [t |-> "obj", id |-> p,
          kv |-> [i \in DOMAIN v.kv |->
                    KV(v.kv[i].k, Realloc(v.kv[i].v, Append(p, i)))]]
  ELSE IF v.t = "arr"
    THEN [t |-> "arr", id |-> p,
          el |-> [i \in DOMAIN v.el |-> Realloc(v.el[i], Append(p, i))]]
  ELSE v

\* An assignment where the code clones: the very containers of v.
structuredCloneAlias(v, p) == v

\* structuredClone(v): a deep copy, no container shared with v.
structuredClone(v, p) == Realloc(v, p)

\* The value of a tree regardless of the identities of its containers: two
\* trees are deep-equal exactly when their PlainValues are equal.
PlainValue(v) == Realloc(v, <<>>)

\* The identities of every container reachable from v.
RECURSIVE ContainerIds(_)
ContainerIds(v) ==
  IF v.t = "obj"
    THEN {v.id} \cup UNION {ContainerIds(v.kv[i].v) : i \in DOMAIN v.kv}
  ELSE IF v.t = "arr"
    THEN {v.id} \cup UNION {ContainerIds(v.el[i]) : i \in DOMAIN v.el}
  ELSE {}

\* ------------------------------------------------------------ merge engine
Strategies == {"replace", "append", "prepend"}

\* The strategy a directive's $arrayMerge string names.
sAppend == <<"a", "p", "p", "e", "n", "d">>
sPrepend == <<"p", "r", "e", "p", "e", "n", "d">>
StrategyNamed(chars) ==
  IF chars = sAppend THEN "append"
  ELSE IF chars = sPrepend THEN "prepend"
  ELSE "replace"

\* The reserved shape { $arrayMerge: strategy, values: [...] }.
isMergeDirective(v) ==
  /\ isPlainObject(v)
  /\ HasKey(v, "$arrayMerge")
  /\ HasKey(v, "values")

\* An object with a $arrayMerge key anywhere in v (what JSON.stringify(v)
\* .includes("$arrayMerge") detects for keys).
RECURSIVE ContainsDirective(_)
ContainsDirective(v) ==
  IF v.t = "obj"
    THEN HasKey(v, "$arrayMerge")
         \/ \E i \in DOMAIN v.kv : ContainsDirective(v.kv[i].v)
  ELSE IF v.t = "arr"
    THEN \E i \in DOMAIN v.el : ContainsDirective(v.el[i])
  ELSE FALSE

\* stripMergeDirectives: every directive shape is replaced by its values
\* sequence, recursively; all other structure is left as it is.
RECURSIVE stripMergeDirectives(_)
stripMergeDirectives(v) ==
  IF isMergeDirective(v)
    THEN stripMergeDirectives(ValueAt(v, "values"))
  ELSE IF v.t = "obj"
    THEN [v EXCEPT !.kv = [i \in DOMAIN v.kv |->
                    KV(v.kv[i].k, stripMergeDirectives(v.kv[i].v))]]
  ELSE IF v.t = "arr"
    THEN [v EXCEPT !.el = [i \in DOMAIN v.el |-> stripMergeDirectives(v.el[i])]]
  ELSE v

createMergeContext(strategy) == [defaultArrayStrategy |-> strategy]

\* The elements of a base value when it is a sequence, none otherwise.
ElementsOf(v) == IF isArray(v) THEN v.el ELSE <<>>

mergeArrays(base, values, strategy) ==
  IF strategy = "append" THEN base \o values
  ELSE IF strategy = "prepend" THEN values \o base
  ELSE values

\* The merge of two mappings, key by key over the overlay's keys.
RECURSIVE MergeValue(_, _, _)
\* A directive resolved with the ambient strategy instead of its own.
MergeKeyAmbient(base, k, ov, ctx) ==
  LET hasBase == HasKey(base, k)
      bv == IF hasBase THEN ValueAt(base, k) ELSE Obj(<<>>)
  IN  IF isMergeDirective(ov)
        THEN Arr(mergeArrays(IF hasBase THEN ElementsOf(bv) ELSE <<>>,
                             ElementsOf(ValueAt(ov, "values")),
                             ctx.defaultArrayStrategy))
      ELSE IF isArray(ov) /\ hasBase /\ isArray(bv)
        THEN Arr(mergeArrays(bv.el, ov.el, ctx.defaultArrayStrategy))
      ELSE IF isPlainObject(ov) /\ hasBase /\ isPlainObject(bv)
        THEN MergeValue(bv, ov, ctx)
      ELSE ov

MergeKey(base, k, ov, ctx) ==
  LET hasBase == HasKey(base, k)
      bv == IF hasBase THEN ValueAt(base, k) ELSE Obj(<<>>)
  IN  IF isMergeDirective(ov)
        THEN LET dir == ValueAt(ov, "$arrayMerge")
                 strategy == IF dir.t = "str" THEN StrategyNamed(dir.s)
                             ELSE "replace"
             IN  Arr(mergeArrays(IF hasBase THEN ElementsOf(bv) ELSE <<>>,
                                 ElementsOf(ValueAt(ov, "values")), strategy))
      ELSE IF isArray(ov) /\ hasBase /\ isArray(bv)
        THEN Arr(mergeArrays(bv.el, ov.el, ctx.defaultArrayStrategy))
      ELSE IF isPlainObject(ov) /\ hasBase /\ isPlainObject(bv)
        THEN MergeValue(bv, ov, ctx)
      ELSE ov

\* A shallow merge: the overlay's value wins at every key it holds.
MergeValueShallow(base, overlay, ctx) ==
  Obj(SelectSeq(base.kv, LAMBDA x : ~HasKey(overlay, x.k)) \o overlay.kv)

MergeValue(base, overlay, ctx) ==
  LET merged == [i \in DOMAIN base.kv |->
                   IF HasKey(overlay, base.kv[i].k)
                     THEN KV(base.kv[i].k,
                             MergeKey(base, base.kv[i].k,
                                      ValueAt(overlay, base.kv[i].k), ctx))
                     ELSE base.kv[i]]
      added == SelectSeq(overlay.kv, LAMBDA e : ~HasKey(base, e.k))
  IN  Obj(merged \o [i \in DOMAIN added |->
                       KV(added[i].k, MergeKey(base, added[i].k, added[i].v, ctx))])

\* deepMerge(base, overlay, ctx): pure; the result lives in containers of its
\* own (site p), aliasing neither base nor overlay.
deepMerge(base, overlay, ctx, p) == Realloc(MergeValue(base, overlay, ctx), p)

\* ------------------------------------------------------- env interpolator
\* Characters a variable name is made of (letters, digits, underscore).
NameChars == {"A", "E", "U", "x", "d", "m", "_"}

NoError == [kind |-> "none", name |-> <<>>, msg |-> <<>>]
Undefined == [def |-> FALSE, val |-> <<>>]
Defined(val) == [def |-> TRUE, val |-> val]

\* process.env[name]
EnvLookup(e, name) == IF name \in DOMAIN e THEN e[name] ELSE Undefined

\* First position at or after i that holds no name character.
RECURSIVE NameEnd(_, _)
NameEnd(s, i) ==
  IF i <= Len(s) /\ s[i] \in NameChars THEN NameEnd(s, i + 1) ELSE i

\* First position at or after i that holds "}", or Len(s) + 1.
RECURSIVE CloseAt(_, _)
CloseAt(s, i) ==
  IF i <= Len(s) /\ s[i] # "}" THEN CloseAt(s, i + 1) ELSE i

NoMatch == [ok |-> FALSE, kind |-> "none", name |-> <<>>, arg |-> <<>>, next |-> 0]

\* The expression ${NAME}, ${NAME:-default} or ${NAME:?message} starting at
\* position i of s, if there is one.
MatchAt(s, i) ==
  IF ~(i + 1 <= Len(s) /\ s[i] = "$" /\ s[i + 1] = "{") THEN NoMatch
  ELSE LET j == NameEnd(s, i + 2)
           name == SubSeq(s, i + 2, j - 1)
       IN  IF j = i + 2 \/ j > Len(s) THEN NoMatch
           ELSE IF s[j] = "}"
             THEN [ok |-> TRUE, kind |-> "plain", name |-> name, arg |-> <<>>,
                   next |-> j + 1]
           ELSE IF s[j] = ":" /\ j + 1 <= Len(s) /\ s[j + 1] \in {"-", "?"}
                   /\ CloseAt(s, j + 2) <= Len(s)
             THEN [ok |-> TRUE,
                   kind |-> IF s[j + 1] = "-" THEN "default" ELSE "required",
                   name |-> name,
                   arg |-> SubSeq(s, j + 2, CloseAt(s, j + 2) - 1),
                   next |-> CloseAt(s, j + 2) + 1]
           ELSE NoMatch

\* An empty-but-set variable taken for a missing one, as a shell does.
ResolveEmptyAsMissing(m, text, e, strict) ==
  LET x == EnvLookup(e, m.name)
  IN  IF x.def /\ ~(m.kind = "default" /\ x.val = <<>>)
        THEN [ok |-> TRUE, s |-> x.val, err |-> NoError]
      ELSE IF m.kind = "default" THEN [ok |-> TRUE, s |-> m.arg, err |-> NoError]
      ELSE IF m.kind = "required"
        THEN [ok |-> FALSE, s |-> <<>>,
              err |-> [kind |-> "required", name |-> m.name, msg |-> m.arg]]
      ELSE IF strict
        THEN [ok |-> FALSE, s |-> <<>>,
              err |-> [kind |-> "missing", name |-> m.name, msg |-> <<>>]]
      ELSE [ok |-> TRUE, s |-> text, err |-> NoError]

\* The ${NAME:?message} form failing in strict mode only.
ResolveRequiredWhenStrict(m, text, e, strict) ==
  LET x == EnvLookup(e, m.name)
  IN  IF x.def THEN [ok |-> TRUE, s |-> x.val, err |-> NoError]
      ELSE IF m.kind = "default" THEN [ok |-> TRUE, s |-> m.arg, err |-> NoError]
      ELSE IF m.kind = "required" /\ strict
        THEN [ok |-> FALSE, s |-> <<>>,
              err |-> [kind |-> "required", name |-> m.name, msg |-> m.arg]]
      ELSE IF strict
        THEN [ok |-> FALSE, s |-> <<>>,
              err |-> [kind |-> "missing", name |-> m.name, msg |-> <<>>]]
      ELSE [ok |-> TRUE, s |-> text, err |-> NoError]

\* What one occurrence m (the text `text`) is replaced by.
Resolve(m, text, e, strict) ==
  LET x == EnvLookup(e, m.name)
  IN  IF x.def THEN [ok |-> TRUE, s |-> x.val, err |-> NoError]
      ELSE IF m.kind = "default" THEN [ok |-> TRUE, s |-> m.arg, err |-> NoError]
      ELSE IF m.kind = "required"
        THEN [ok |-> FALSE, s |-> <<>>,
              err |-> [kind |-> "required", name |-> m.name, msg |-> m.arg]]
      ELSE IF strict
        THEN [ok |-> FALSE, s |-> <<>>,
              err |-> [kind |-> "missing", name |-> m.name, msg |-> <<>>]]
      ELSE [ok |-> TRUE, s |-> text, err |-> NoError]

\* The string s from position i on, every occurrence replaced, left to right.
RECURSIVE ScanFrom(_, _, _, _)
ScanFrom(s, i, e, strict) ==
  IF i > Len(s) THEN [ok |-> TRUE, s |-> <<>>, err |-> NoError]
  ELSE LET m == MatchAt(s, i)
       IN  IF m.ok
             THEN LET r == Resolve(m, SubSeq(s, i, m.next - 1), e, strict)
                      rest == ScanFrom(s, m.next, e, strict)
                  IN  IF ~r.ok THEN r
                      ELSE IF ~rest.ok THEN rest
                      ELSE [ok |-> TRUE, s |-> r.s \o rest.s, err |-> NoError]
             ELSE LET rest == ScanFrom(s, i + 1, e, strict)
                  IN  IF ~rest.ok THEN rest
                      ELSE [ok |-> TRUE, s |-> <<s[i]>> \o rest.s, err |-> NoError]

processString(s, e, strict) == ScanFrom(s, 1, e, strict)

\* The occurrences the left-to-right scan of s finds from position i on.
RECURSIVE Occurrences(_, _)
Occurrences(s, i) ==
  IF i > Len(s) THEN <<>>
  ELSE IF MatchAt(s, i).ok
    THEN <<MatchAt(s, i)>> \o Occurrences(s, MatchAt(s, i).next)
  ELSE Occurrences(s, i + 1)

SetMin(S) == CHOOSE x \in S : \A y \in S : x <= y

\* interpolateEnvVars(value, { strict }): strings rewritten throughout the
\* tree; ok = FALSE with the first error when it throws.  The containers of
\* the result are those of the argument (the weakest assumption about what
\* the interpolator allocates: a copying interpolator shares even less).
RECURSIVE processValue(_, _, _)
processValue(v, e, strict) ==
  IF v.t = "str"
    THEN LET r == processString(v.s, e, strict)
         IN  [ok |-> r.ok, v |-> Str(r.s), err |-> r.err]
  ELSE IF v.t = "obj"
    THEN LET rs == [i \in DOMAIN v.kv |-> processValue(v.kv[i].v, e, strict)]
             bad == {i \in DOMAIN v.kv : ~rs[i].ok}
         IN  IF bad # {} THEN rs[SetMin(bad)]
             ELSE [ok |-> TRUE, err |-> NoError,
                   v |-> [v EXCEPT !.kv = [i \in DOMAIN v.kv |->
                                            KV(v.kv[i].k, rs[i].v)]]]
  ELSE IF v.t = "arr"
    THEN LET rs == [i \in DOMAIN v.el |-> processValue(v.el[i], e, strict)]
             bad == {i \in DOMAIN v.el : ~rs[i].ok}
         IN  IF bad # {} THEN rs[SetMin(bad)]
             ELSE [ok |-> TRUE, err |-> NoError,
                   v |-> [v EXCEPT !.el = [i \in DOMAIN v.el |-> rs[i].v]]]
  ELSE [ok |-> TRUE, v |-> v, err |-> NoError]

interpolateEnvVars(v, e, strict) == processValue(v, e, strict)

\* -------------------------------------------------------------- documents
\* An optional content: `content` of a FileSpec or of a repo-level override.
NoContent == [def |-> FALSE, v |-> Obj(<<>>)]
Content(v) == [def |-> TRUE, v |-> v]

FileSpec(name, content, strategy, createOnly) ==
  [fileName |-> name, content |-> content, mergeStrategy |-> strategy,
   createOnly |-> createOnly]

\* A repo-level override: `false`, or { override?, content?, createOnly? }.
Excluded == [kind |-> "false", override |-> "undefined", content |-> NoContent,
             createOnly |-> "undefined"]
NoOverride == [kind |-> "undefined", override |-> "undefined",
               content |-> NoContent, createOnly |-> "undefined"]
Override(override, content, createOnly) ==
  [kind |-> "object", override |-> override, content |-> content,
   createOnly |-> createOnly]

GitString(url) == [t |-> "string", s |-> url, el |-> <<>>]
GitArray(urls) == [t |-> "array", s |-> "", el |-> urls]
RepoEntry(git, overrides) == [git |-> git, files |-> overrides]

\* The containers of a parsed document: those of the base content of file f
\* and those of the override content that repo r holds at position n.
BaseSite(f) == <<0, f>>
OverrideSite(r, n) == <<1, r, n>>

Parsed(doc) ==
  [doc EXCEPT
     !.files = [f \in DOMAIN doc.files |->
        [doc.files[f] EXCEPT !.content.v = Realloc(@, BaseSite(f))]],
     !.repos = [r \in DOMAIN doc.repos |->
        [doc.repos[r] EXCEPT !.files = [n \in DOMAIN doc.repos[r].files |->
           [doc.repos[r].files[n] EXCEPT
              !.ov.content.v = Realloc(@, OverrideSite(r, n))]]]]]

\* ------------------------------------------------------------- normalizer
VARIABLES
  raw,            \* the raw document handed to normalizeConfig
  raw0,           \* the document as the loader parsed it (never assigned)
  env,            \* process.env
  pc,             \* "idle", "running", "returned", "threw", "mutated"
  call,           \* number of the current (or last) call
  ri, ui, fi,     \* positions of the three loops: raw repo, git URL, file name
  files,          \* `files` of the URL being expanded
  expandedRepos,  \* `expandedRepos`
  result,         \* what the last call returned
  outcomes,       \* per finished call: how it ended and the value returned
  touched         \* the output entry the caller mutated afterwards

nvars == <<raw, raw0, env, pc, call, ri, ui, fi, files, expandedRepos, result,
           outcomes, touched>>

\* loadConfig of config.ts: validateRawConfig, then normalizeConfig.
VARIABLES
  config,         \* the document loadConfig parsed
  lpc,            \* "fileName", "repos", "loop", "normalize", "normalizing",
                  \* "threw"
  vi,             \* `i` of the loop over config.repos (0-based)
  hasRootJson,    \* `hasRootJson`
  thrown,         \* the Error validateRawConfig threw
  baseJson        \* `baseJson` of normalizeConfig

lvars == <<config, lpc, vi, hasRootJson, thrown, baseJson>>

\* interpolateEnvVars called on its own.
VARIABLES
  parts,          \* what the string was written from: literals and expressions
  ienv,           \* process.env
  igiven,         \* whether an options object is passed
  istrict,        \* options.strict
  ipc,            \* "idle", "returned", "threw"
  interpolated    \* what interpolateEnvVars returned or threw

evars == <<parts, ienv, igiven, istrict, ipc, interpolated>>

\* deepMerge called on its own.
VARIABLES
  mbase,          \* `base`
  moverlay,       \* `overlay`
  mstrategy,      \* the ambient strategy of the merge context
  mpc,            \* "idle", "merged"
  merged          \* what deepMerge returned

mvars == <<mbase, moverlay, mstrategy, mpc, merged>>

\* RepositoryProcessor.process, invoked twice on one instance.
VARIABLES
  thisGitOps,     \* `this.gitOps`: the GitOps instance (0: null)
  ppc,            \* per invocation: the await it stands at, "new", "done"
  dryRunOf,       \* per invocation: options.dryRun
  repoFiles,      \* the files the remote repository holds
  workDirs,       \* per workDir: the files it holds
  changedFiles,   \* per invocation: `changedFiles`
  hasChangesOf,   \* per invocation: `hasChanges` (<<>>: not assigned)
  existed,        \* per invocation: its workDir as step 5 found it
  calls,          \* per invocation: the calls it made, in order
  settled,        \* per invocation: what its promise settled with
  original        \* per invocation: what its try block ended with

pvars == <<thisGitOps, ppc, dryRunOf, repoFiles, workDirs, changedFiles,
           hasChangesOf, existed, calls, settled, original>>

vars == <<nvars, lvars, evars, mvars, pvars>>

\* What each part leaves as it is: the state of the other parts.
notN == <<lvars, evars, mvars, pvars>>
notL == <<nvars, evars, mvars, pvars>>
notE == <<nvars, lvars, mvars, pvars>>
notM == <<nvars, lvars, evars, pvars>>
notP == <<nvars, lvars, evars, mvars>>

NoConfig == [def |-> FALSE, repos |-> <<>>]

\* Object.keys(raw.files)
fileNamesOf(doc) == [f \in DOMAIN doc.files |-> doc.files[f].fileName]

\* A git array taken for a single target: only its first URL.
gitUrlsFirstOnly(rawRepo) ==
  IF rawRepo.git.t = "array" THEN SubSeq(rawRepo.git.el, 1, 1)
  ELSE <<rawRepo.git.s>>

\* Array.isArray(rawRepo.git) ? rawRepo.git : [rawRepo.git]
gitUrlsOf(rawRepo) ==
  IF rawRepo.git.t = "array" THEN rawRepo.git.el ELSE <<rawRepo.git.s>>

\* rawRepo.files?.[fileName]
repoOverrideOf(rawRepo, fileName) ==
  IF \E n \in DOMAIN rawRepo.files : rawRepo.files[n].fileName = fileName
    THEN rawRepo.files[CHOOSE n \in DOMAIN rawRepo.files :
                         rawRepo.files[n].fileName = fileName].ov
    ELSE NoOverride

\* `!repoOverride` where the code tests `=== false`.
isExcludedFalsy(repoOverride) == repoOverride.kind # "object"

\* repoOverride === false
isExcluded(repoOverride) == repoOverride.kind = "false"

\* Allocation sites of one (call, repo, URL, file) iteration.
CloneSite(c, r, u, f) == <<2, c, r, u, f>>
MergeSite(c, r, u, f) == <<3, c, r, u, f>>
EmptySite(c, r, u, f) == <<4, c, r, u, f>>

\* fileConfig.content ?? {}
baseContentOf(fileConfig, p) ==
  IF fileConfig.content.def THEN fileConfig.content.v
  ELSE [t |-> "obj", id |-> p, kv |-> <<>>]

\* fileConfig.mergeStrategy ?? "replace"
fileStrategyOf(fileConfig) ==
  IF fileConfig.mergeStrategy = "undefined" THEN "replace"
  ELSE fileConfig.mergeStrategy

\* The override flag never looked at.
modeIgnoringOverride(repoOverride) ==
  IF ~(repoOverride.kind = "object" /\ repoOverride.content.def)
    THEN "inherit"
  ELSE "merge"

\* Which branch of step 3 a repo-level override selects.
modeOf(repoOverride) ==
  IF repoOverride.kind = "object" /\ repoOverride.override = "true"
    THEN "override"
  ELSE IF ~(repoOverride.kind = "object" /\ repoOverride.content.def)
    THEN "inherit"
  ELSE "merge"

\* Step 3: the merged content of file f for URL u of raw repo r, in call c.
mergedContentAt(doc, c, r, u, f) ==
  LET fileConfig == doc.files[f]
      repoOverride == repoOverrideOf(doc.repos[r], fileConfig.fileName)
      baseContent == baseContentOf(fileConfig, EmptySite(c, r, u, f))
      fileStrategy == fileStrategyOf(fileConfig)
  IN  IF modeOf(repoOverride) = "override"
        THEN stripMergeDirectives(
               structuredClone(repoOverride.content.v, CloneSite(c, r, u, f)))
      ELSE IF modeOf(repoOverride) = "inherit"
        THEN structuredClone(baseContent, CloneSite(c, r, u, f))
      ELSE stripMergeDirectives(
             deepMerge(structuredClone(baseContent, CloneSite(c, r, u, f)),
                       repoOverride.content.v,
                       createMergeContext(fileStrategy),
                       MergeSite(c, r, u, f)))

\* The content computed once per raw repo, before the loop over its URLs.
mergedContentHoisted(doc, c, r, u, f) == mergedContentAt(doc, c, r, 1, f)

\* The content is computed inside the loop over gitUrls, once per URL.
mergedContentOf(doc, c, r, u, f) == mergedContentAt(doc, c, r, u, f)

\* { strict: false } where the code passes { strict: true }.
interpolatedLenient(doc, e, c, r, u, f) ==
  interpolateEnvVars(mergedContentOf(doc, c, r, u, f), e, FALSE)

\* The base content interpolated first, before the mode is looked at.
interpolatedBaseFirst(doc, e, c, r, u, f) ==
  LET early == interpolateEnvVars(
                 baseContentOf(doc.files[f], EmptySite(c, r, u, f)), e, TRUE)
  IN  IF early.ok
        THEN interpolateEnvVars(mergedContentOf(doc, c, r, u, f), e, TRUE)
        ELSE early

\* Step 4: interpolateEnvVars(mergedContent, { strict: true })
interpolatedOf(doc, e, c, r, u, f) ==
  interpolateEnvVars(mergedContentOf(doc, c, r, u, f), e, TRUE)

\* repoOverride?.createOnly ?? fileConfig.createOnly
createOnlyOf(repoOverride, fileConfig) ==
  IF repoOverride.createOnly # "undefined" THEN repoOverride.createOnly
  ELSE fileConfig.createOnly

\* The accumulator kept across calls (declared outside the function).
keptExpandedRepos(previous) == previous

\* const expandedRepos = []
newExpandedRepos(previous) == <<>>

Running == pc = "running"
InRepos == Running /\ ri <= Len(raw.repos)
InUrls == InRepos /\ ui <= Len(gitUrlsOf(raw.repos[ri]))
InFiles == InUrls /\ fi <= Len(raw.files)

\* normalizeConfig(raw) is entered.
Call ==
  /\ pc \in {"idle", "returned", "threw"}
  /\ call < MaxCalls
  /\ call' = call + 1
  /\ pc' = "running"
  /\ expandedRepos' = newExpandedRepos(expandedRepos)
  /\ files' = <<>>
  /\ ri' = 1 /\ ui' = 1 /\ fi' = 1
  /\ result' = NoConfig
  /\ UNCHANGED <<raw, raw0, env, outcomes, touched>>
  /\ UNCHANGED notN

\* if (repoOverride === false) continue
SkipFile ==
  /\ InFiles
  /\ isExcluded(repoOverrideOf(raw.repos[ri], raw.files[fi].fileName))
  /\ fi' = fi + 1
  /\ UNCHANGED <<raw, raw0, env, pc, call, ri, ui, files, expandedRepos,
                 result, outcomes, touched>>
  /\ UNCHANGED notN

\* One file: merged, interpolated, pushed onto `files`.
PushFile ==
  /\ InFiles
  /\ LET fileConfig == raw.files[fi]
         repoOverride == repoOverrideOf(raw.repos[ri], fileConfig.fileName)
         mergedContent == interpolatedOf(raw, env, call, ri, ui, fi)
     IN  /\ ~isExcluded(repoOverride)
         /\ mergedContent.ok
         /\ files' = Append(files,
                       [fileName |-> fileConfig.fileName,
                        content |-> mergedContent.v,
                        createOnly |-> createOnlyOf(repoOverride, fileConfig)])
  /\ fi' = fi + 1
  /\ UNCHANGED <<raw, raw0, env, pc, call, ri, ui, expandedRepos, result,
                 outcomes, touched>>
  /\ UNCHANGED notN

\* interpolateEnvVars throws: nothing catches it, the call ends without a value.
Throw ==
  /\ InFiles
  /\ ~isExcluded(repoOverrideOf(raw.repos[ri], raw.files[fi].fileName))
  /\ ~interpolatedOf(raw, env, call, ri, ui, fi).ok
  /\ pc' = "threw"
  /\ result' = NoConfig
  /\ outcomes' = Append(outcomes,
                    [how |-> "threw", repos |-> <<>>,
                     err |-> interpolatedOf(raw, env, call, ri, ui, fi).err])
  /\ files' = <<>> /\ expandedRepos' = <<>>
  /\ UNCHANGED <<raw, raw0, env, call, ri, ui, fi, touched>>
  /\ UNCHANGED notN

\* expandedRepos.push({ git: gitUrl, files })
PushRepo ==
  /\ InUrls
  /\ fi > Len(raw.files)
  /\ expandedRepos' = Append(expandedRepos,
                         [git |-> gitUrlsOf(raw.repos[ri])[ui], files |-> files])
  /\ ui' = ui + 1
  /\ fi' = 1
  /\ files' = <<>>
  /\ UNCHANGED <<raw, raw0, env, pc, call, ri, result, outcomes, touched>>
  /\ UNCHANGED notN

\* The URLs of one raw repo are exhausted: on to the next raw repo.
NextRepo ==
  /\ InRepos
  /\ ui > Len(gitUrlsOf(raw.repos[ri]))
  /\ ri' = ri + 1
  /\ ui' = 1
  /\ UNCHANGED <<raw, raw0, env, pc, call, fi, files, expandedRepos, result,
                 outcomes, touched>>
  /\ UNCHANGED notN

\* Deep-equality views: contents without the identities of their containers.
PlainFiles(fs) == [i \in DOMAIN fs |-> [fs[i] EXCEPT !.content = PlainValue(@)]]
PlainRepos(rs) ==
  [i \in DOMAIN rs |-> [git |-> rs[i].git, files |-> PlainFiles(rs[i].files)]]
PlainDoc(doc) ==
  [doc EXCEPT
     !.files = [f \in DOMAIN doc.files |->
        [doc.files[f] EXCEPT !.content.v = PlainValue(@)]],
     !.repos = [r \in DOMAIN doc.repos |->
        [doc.repos[r] EXCEPT !.files = [n \in DOMAIN doc.repos[r].files |->
           [doc.repos[r].files[n] EXCEPT !.ov.content.v = PlainValue(@)]]]]]

\* return { repos: expandedRepos }
Return ==
  /\ Running
  /\ ri > Len(raw.repos)
  /\ result' = [def |-> TRUE, repos |-> expandedRepos]
  /\ pc' = "returned"
  /\ outcomes' = Append(outcomes,
                    [how |-> "returned", repos |-> PlainRepos(expandedRepos),
                     err |-> NoError])
  /\ UNCHANGED <<raw, raw0, env, call, ri, ui, fi, files, expandedRepos,
                 touched>>
  /\ UNCHANGED notN

\* ------------------------------------------------ the caller, afterwards
\* A write to the container `target`, seen through every reference to it: an
\* object gains a property, an array an element.
RECURSIVE Written(_, _)
Written(v, target) ==
  IF v.t = "obj"
    THEN LET below == [v EXCEPT !.kv = [i \in DOMAIN v.kv |->
                         KV(v.kv[i].k, Written(v.kv[i].v, target))]]
         IN  IF v.id = target
               THEN [below EXCEPT !.kv = Append(@, KV("mutated", Num(0)))]
               ELSE below
  ELSE IF v.t = "arr"
    THEN LET below == [v EXCEPT !.el = [i \in DOMAIN v.el |->
                         Written(v.el[i], target)]]
         IN  IF v.id = target
               THEN [below EXCEPT !.el = Append(@, Num(0))]
               ELSE below
  ELSE v

WrittenRepos(rs, target) ==
  [i \in DOMAIN rs |->
     [rs[i] EXCEPT !.files = [j \in DOMAIN rs[i].files |->
        [rs[i].files[j] EXCEPT !.content = Written(@, target)]]]]

WrittenDoc(doc, target) ==
  [doc EXCEPT
     !.files = [f \in DOMAIN doc.files |->
        [doc.files[f] EXCEPT !.content.v = Written(@, target)]],
     !.repos = [r \in DOMAIN doc.repos |->
        [doc.repos[r] EXCEPT !.files = [n \in DOMAIN doc.repos[r].files |->
           [doc.repos[r].files[n] EXCEPT !.ov.content.v = Written(@, target)]]]]]

\* The caller mutates one container of the content of one returned entry.
Mutate ==
  /\ pc = "returned"
  /\ \E e \in DOMAIN result.repos :
       \E j \in DOMAIN result.repos[e].files :
         \E target \in ContainerIds(result.repos[e].files[j].content) :
           /\ result' = [result EXCEPT !.repos = WrittenRepos(@, target)]
           /\ raw' = WrittenDoc(raw, target)
           /\ touched' = e
  /\ pc' = "mutated"
  /\ UNCHANGED <<raw0, env, call, ri, ui, fi, files, expandedRepos, outcomes>>
  /\ UNCHANGED notN

\* ------------------------------------------------------------- the inputs
sRefA == <<"$", "{", "A", "}">>
sRefU == <<"$", "{", "U", "}">>
Directive(strategy, values) ==
  Obj(<<KV("$arrayMerge", Str(strategy)), KV("values", Arr(values))>>)

BasePlain ==
  Obj(<<KV("a", Arr(<<Num(1)>>)), KV("n", Obj(<<KV("k", Str(<<"x">>))>>))>>)
BaseDirective ==
  Obj(<<KV("n", Obj(<<KV("a", Directive(sAppend, <<Num(1)>>))>>))>>)
BaseEnv ==
  Obj(<<KV("z", Str(sRefA)), KV("n", Obj(<<KV("k", Str(sRefU))>>))>>)
OverArray ==
  Obj(<<KV("a", Arr(<<Num(2)>>)), KV("n", Obj(<<KV("j", Str(<<"x">>))>>))>>)
OverDirective ==
  Obj(<<KV("a", Directive(sPrepend, <<Num(2)>>)),
        KV("l", Arr(<<Directive(sAppend, <<Num(3)>>)>>))>>)
\* OverDirective, and a scalar at the key where the bases hold an object
OverReplace == Obj(OverDirective.kv \o <<KV("n", Str(<<"x">>))>>)

EnvChoices ==
  { (<<"A">> :> Defined(<<"v">>)),
    (<<"A">> :> Defined(<<"v">>)) @@ (<<"U">> :> Defined(<<"u">>)) }

Urls == <<"u1", "u2", "u3", "u4">>

SecondFile ==
  FileSpec("f2", Content(Obj(<<KV("c", Str(sRefA))>>)), "undefined", "undefined")

\* [document-level mergeStrategy, file map]
FileMaps ==
  {[mergeStrategy |-> "undefined",
    files |-> <<FileSpec("f1", c, "undefined", "undefined")>>] :
      c \in {NoContent, Content(BasePlain), Content(BaseDirective),
             Content(BaseEnv)}}
  \cup
  {[mergeStrategy |-> "undefined",
    files |-> <<FileSpec("f1", Content(BasePlain), "append", "true")>>],
   [mergeStrategy |-> "replace",
    files |-> <<FileSpec("f1", Content(BasePlain), "prepend", "false")>>],
   [mergeStrategy |-> "append",
    files |-> <<FileSpec("f1", Content(BasePlain), "undefined", "false")>>],
   [mergeStrategy |-> "undefined",
    files |-> <<FileSpec("f1", Content(BasePlain), "undefined", "undefined"),
                SecondFile>>],
   [mergeStrategy |-> "undefined",
    files |-> <<SecondFile,
                FileSpec("f1", Content(BaseEnv), "append", "undefined")>>]}

For(name, ov) == [fileName |-> name, ov |-> ov]

RepoChoices ==
  { RepoEntry(GitString(Urls[1]), <<>>),
    RepoEntry(GitArray(SubSeq(Urls, 1, MaxUrls)),
              <<For("f1", Override("undefined", Content(OverArray), "undefined"))>>),
    RepoEntry(GitString(Urls[2]),
              <<For("f1", Override("true", Content(OverDirective), "true"))>>),
    RepoEntry(GitArray(<<Urls[3]>>),
              <<For("f2", Excluded),
                For("f1", Override("false", Content(OverReplace), "false"))>>),
    RepoEntry(GitString(Urls[4]),
              <<For("f1", Excluded),
                For("g", Override("undefined", Content(OverArray), "true"))>>),
    RepoEntry(GitArray(SubSeq(Urls, 2, MaxUrls + 1)),
              <<For("f1", Override("undefined", NoContent, "true"))>>) }

RepoLists == UNION {[1..n -> RepoChoices] : n \in 1..MaxRepos}

\* What the validator lets through, as far as the normalizer depends on it.
Validated(doc) ==
  /\ Len(doc.repos) > 0
  /\ \A r \in DOMAIN doc.repos :
       /\ Len(gitUrlsOf(doc.repos[r])) > 0
       /\ \A f \in DOMAIN doc.files :
            LET ov == repoOverrideOf(doc.repos[r], doc.files[f].fileName)
            IN  /\ ov.kind = "false" \/ doc.files[f].content.def \/ ov.content.def
                /\ ov.override = "true" => ov.content.def

Documents ==
  {d \in {[mergeStrategy |-> m.mergeStrategy, files |-> m.files, repos |-> rs] :
            m \in FileMaps, rs \in RepoLists} : Validated(d)}

\* Whether the string s occurs as a value somewhere in v.
RECURSIVE Mentions(_, _)
Mentions(v, s) ==
  IF v.t = "str" THEN v.s = s
  ELSE IF v.t = "obj" THEN \E i \in DOMAIN v.kv : Mentions(v.kv[i].v, s)
  ELSE IF v.t = "arr" THEN \E i \in DOMAIN v.el : Mentions(v.el[i], s)
  ELSE FALSE

\* Whether the document refers to the variable U at all.
RefersToU(doc) ==
  \/ \E f \in DOMAIN doc.files : Mentions(doc.files[f].content.v, sRefU)
  \/ \E r \in DOMAIN doc.repos : \E n \in DOMAIN doc.repos[r].files :
       Mentions(doc.repos[r].files[n].ov.content.v, sRefU)

\* ------------------------------------------------- loadConfig (config.ts)
\* JavaScript values the parsed YAML may hold besides strings, arrays, objects.
JsUndefined == [t |-> "undefined"]
JsNull == [t |-> "null"]
JsTrue == [t |-> "bool", b |-> TRUE]

\* !v
Falsy(v) ==
  \/ v.t \in {"undefined", "null"}
  \/ v.t = "str" /\ v.s = <<>>
  \/ v.t = "bool" /\ ~v.b

\* { git, json?, override? } of the single-file schema
RawRepoConfig(git, json, override) ==
  [git |-> git, json |-> json, override |-> override]

\* { fileName, json?, mergeStrategy?, repos }
RawConfig(fileName, json, mergeStrategy, repos) ==
  [fileName |-> fileName, json |-> json, mergeStrategy |-> mergeStrategy,
   repos |-> repos]

\* An Error: the literal text of its message and what the template inserts.
NotThrown == [text |-> "", index |-> -1, name |-> <<>>]
ErrFileName ==
  [text |-> "Config missing required field: fileName", index |-> -1,
   name |-> <<>>]
ErrRepos ==
  [text |-> "Config missing required field: repos (must be an array)",
   index |-> -1, name |-> <<>>]
ErrGit(i) ==
  [text |-> "Repo at index ${i} missing required field: git", index |-> i,
   name |-> <<>>]
ErrJson(i) ==
  [text |-> "Repo at index ${i} missing required field: json (no root-level json defined)",
   index |-> i, name |-> <<>>]
ErrOverride(name) ==
  [text |-> "Repo ${getGitDisplayName(repo.git)} has override: true but no json defined",
   index |-> -1, name |-> name]

sUnknown == <<"u", "n", "k", "n", "o", "w", "n">>

\* The last URL of the array where the code takes the first.
getGitDisplayNameLast(git) ==
  IF isArray(git)
    THEN IF git.el = <<>> \/ Falsy(git.el[Len(git.el)]) THEN sUnknown
         ELSE git.el[Len(git.el)].s
  ELSE git.s

\* Array.isArray(git) ? git[0] || 'unknown' : git
getGitDisplayName(git) ==
  IF isArray(git)
    THEN IF git.el = <<>> \/ Falsy(git.el[1]) THEN sUnknown ELSE git.el[1].s
  ELSE git.s

\* An empty array refused as well.
reposRejectedEmpty(repos) ==
  Falsy(repos) \/ ~isArray(repos) \/ repos.el = <<>>

\* !config.repos || !Array.isArray(config.repos)
reposRejected(repos) == Falsy(repos) \/ ~isArray(repos)

\* The json check keyed on the repo's own json only.
repoErrorIgnoringRoot(repo, i, rootJson) ==
  IF Falsy(repo.git) THEN ErrGit(i)
  ELSE IF Falsy(repo.json) THEN ErrJson(i)
  ELSE NotThrown

\* The body of the loop over config.repos: what it throws for repo i, if
\* anything.
repoError(repo, i, rootJson) ==
  IF Falsy(repo.git) THEN ErrGit(i)
  ELSE IF ~rootJson /\ Falsy(repo.json) THEN ErrJson(i)
  ELSE IF ~Falsy(repo.override) /\ Falsy(repo.json)
    THEN ErrOverride(getGitDisplayName(repo.git))
  ELSE NotThrown


\* What the check of config.fileName throws, if anything.
fileNameError(fileName) == IF Falsy(fileName) THEN ErrFileName ELSE NotThrown

\* if (!config.fileName) throw
CheckFileName ==
  /\ lpc = "fileName"
  /\ IF fileNameError(config.fileName) # NotThrown
       THEN lpc' = "threw" /\ thrown' = fileNameError(config.fileName)
       ELSE lpc' = "repos" /\ UNCHANGED thrown
  /\ UNCHANGED <<config, vi, hasRootJson, baseJson>>
  /\ UNCHANGED notL

\* let i = 0
firstIndex(repos) == 0

\* if (!config.repos || !Array.isArray(config.repos)) throw; hasRootJson
CheckRepos ==
  /\ lpc = "repos"
  /\ IF reposRejected(config.repos)
       THEN lpc' = "threw" /\ thrown' = ErrRepos /\ UNCHANGED <<vi, hasRootJson>>
       ELSE /\ lpc' = "loop"
            /\ hasRootJson' = (config.json.t # "undefined")
            /\ vi' = firstIndex(config.repos)
            /\ UNCHANGED thrown
  /\ UNCHANGED <<config, baseJson>>
  /\ UNCHANGED notL

\* One turn of the loop over config.repos.
CheckRepo ==
  /\ lpc = "loop"
  /\ vi >= 0 /\ vi < Len(config.repos.el)
  /\ LET err == repoError(config.repos.el[vi + 1], vi, hasRootJson)
     IN  IF err # NotThrown
           THEN lpc' = "threw" /\ thrown' = err /\ UNCHANGED vi
           ELSE vi' = vi + 1 /\ UNCHANGED <<lpc, thrown>>
  /\ UNCHANGED <<config, hasRootJson, baseJson>>
  /\ UNCHANGED notL

\* The loop ends: validateRawConfig returns to loadConfig.
Validate ==
  /\ lpc = "loop"
  /\ ~(vi >= 0 /\ vi < Len(config.repos.el))
  /\ lpc' = "normalize"
  /\ UNCHANGED <<config, vi, hasRootJson, thrown, baseJson>>
  /\ UNCHANGED notL

\* normalizeConfig(rawConfig) is entered: const baseJson = raw.json ?? {}
Normalize ==
  /\ lpc = "normalize"
  /\ baseJson' = IF config.json.t \in {"undefined", "null"} THEN Obj(<<>>)
                 ELSE config.json
  /\ lpc' = "normalizing"
  /\ UNCHANGED <<config, vi, hasRootJson, thrown>>
  /\ UNCHANGED notL

\* ---------------------------------------------- the documents loadConfig sees
LF == "\n"
CR == "\r"
NUL == "\\0"

sU1 == <<"u", "1">>
sU2 == <<"u", "2">>

\* File names: missing, empty, the traversal, absolute and control-character
\* names of the tests, and relative names with subdirectories and dots.
FileNameChoices ==
  { JsUndefined,
    Str(<<>>),
    Str(<<".", ".", "/", "c">>),
    Str(<<"p", "/", ".", ".", "/", "c">>),
    Str(<<"/", "e", "/", "c">>),
    Str(<<"c", LF, ".", "j">>),
    Str(<<"c", CR, ".", "j">>),
    Str(<<"c", NUL, ".", "j">>),
    Str(<<"s", "/", "c", ".", "j">>),
    Str(<<"m", ".", "c", ".", "j">>) }

RootJsonChoices ==
  { JsUndefined, JsNull, Str(<<"s">>), Arr(<<Str(<<"a">>)>>),
    Obj(<<KV("key", Str(<<"v">>))>>) }

MergeStrategyChoices == { JsUndefined, Str(<<"i", "n", "v">>) }

RepoJson == Obj(<<KV("k", Str(<<"w">>))>>)

RawRepoChoices ==
  { RawRepoConfig(Str(sU1), JsUndefined, JsUndefined),
    RawRepoConfig(Str(sU1), RepoJson, JsUndefined),
    RawRepoConfig(Arr(<<Str(sU1), Str(sU2)>>), RepoJson, JsTrue),
    RawRepoConfig(Str(sU2), JsUndefined, JsTrue),
    RawRepoConfig(Arr(<<Str(sU2), Str(sU1)>>), JsUndefined, JsTrue),
    RawRepoConfig(JsUndefined, JsUndefined, JsUndefined),
    RawRepoConfig(Str(<<>>), RepoJson, JsUndefined),
    RawRepoConfig(Arr(<<>>), RepoJson, JsUndefined),
    RawRepoConfig(Arr(<<>>), JsUndefined, JsTrue) }

ReposChoices ==
  { JsUndefined, JsNull, Str(<<"n", "o">>) }
  \cup {Arr(rs) : rs \in UNION {[1..n -> RawRepoChoices] : n \in 0..MaxRepos}}

RawConfigs ==
  {RawConfig(n, j, m, rs) : n \in FileNameChoices, j \in RootJsonChoices,
                            m \in MergeStrategyChoices, rs \in ReposChoices}

LoaderIdle ==
  /\ config = RawConfig(JsUndefined, JsUndefined, JsUndefined, JsUndefined)
  /\ lpc = "idle"
  /\ vi = 0
  /\ hasRootJson = FALSE
  /\ thrown = NotThrown
  /\ baseJson = JsUndefined

\* ------------------------------------------- interpolateEnvVars, on its own

MaxParts == 2      \* literals and expressions one string is written from

sA == <<"A">>
sE == <<"E">>
sU == <<"U">>

Literal(text) == [kind |-> "literal", name |-> <<>>, arg |-> <<>>, text |-> text]
Plain(name) ==
  [kind |-> "plain", name |-> name, arg |-> <<>>,
   text |-> <<"$", "{">> \o name \o <<"}">>]
WithDefault(name, arg) ==
  [kind |-> "default", name |-> name, arg |-> arg,
   text |-> <<"$", "{">> \o name \o <<":", "-">> \o arg \o <<"}">>]
Required(name, arg) ==
  [kind |-> "required", name |-> name, arg |-> arg,
   text |-> <<"$", "{">> \o name \o <<":", "?">> \o arg \o <<"}">>]

PartChoices ==
  {Literal(<<"x">>), Literal(<<"$">>)}
  \cup {Plain(n) : n \in {sA, sE, sU}}
  \cup {WithDefault(n, d) : n \in {sA, sE, sU}, d \in {<<>>, <<"d">>}}
  \cup {Required(n, <<"m">>) : n \in {sA, sE, sU}}

\* The string the parts spell.
TemplateOf(ps) == Flatten([k \in DOMAIN ps |-> ps[k].text])

\* The tests' environment (a set variable, an empty-but-set one), and the
\* same with U set as well.
InterpEnvChoices ==
  { (sA :> Defined(<<"v">>)) @@ (sE :> Defined(<<>>)),
    (sA :> Defined(<<"v">>)) @@ (sE :> Defined(<<>>)) @@ (sU :> Defined(<<"u">>)) }

NotInterpolated == [ok |-> FALSE, v |-> Str(<<>>), err |-> NoError]

InterpIdle ==
  /\ parts = <<>>
  /\ ienv = (sA :> Defined(<<"v">>))
  /\ igiven = TRUE
  /\ istrict = TRUE
  /\ ipc = "off"
  /\ interpolated = NotInterpolated

InterpInit ==
  /\ parts \in UNION {[1..n -> PartChoices] : n \in 1..MaxParts}
  /\ ienv \in InterpEnvChoices
  /\ igiven \in BOOLEAN
  /\ istrict \in BOOLEAN
  /\ igiven \/ ~istrict
  /\ ipc = "idle"
  /\ interpolated = NotInterpolated

\* Non-strict taken for the default.
strictOfLenient(given, strict) == given /\ strict

\* options.strict, true when no option is given
strictOf(given, strict) == IF given THEN strict ELSE TRUE

\* interpolateEnvVars({ key: <the string> }, { strict })
Interpolate ==
  /\ ipc = "idle"
  /\ LET r == interpolateEnvVars(Obj(<<KV("key", Str(TemplateOf(parts)))>>),
                                 ienv, strictOf(igiven, istrict))
     IN  /\ interpolated' = r
         /\ ipc' = IF r.ok THEN "returned" ELSE "threw"
  /\ UNCHANGED <<parts, ienv, igiven, istrict>>
  /\ UNCHANGED notE

\* ----------------------------------------------------- deepMerge, on its own
Absent == KV("", Num(0))

\* The mapping with the entries that are present, in the order given.
Mapping(entries) == Obj(SelectSeq(entries, LAMBDA x : x # Absent))

MergeBases ==
  {Mapping(<<a, n, s>>) :
     a \in {Absent, KV("a", Arr(<<Num(1), Num(2)>>)), KV("a", Num(7))},
     n \in {Absent,
            KV("n", Obj(<<KV("k", Str(<<"x">>)), KV("b", Num(2))>>)),
            KV("n", Obj(<<KV("a", Arr(<<Num(1)>>)), KV("k", Num(1))>>)),
            KV("n", Num(9))},
     s \in {Absent, KV("s", Num(1))}}

MergeOverlays ==
  {Mapping(<<n, a, s>>) :
     a \in {Absent,
            KV("a", Arr(<<Num(3)>>)),
            KV("a", Directive(sAppend, <<Num(3), Num(4)>>)),
            KV("a", Directive(sPrepend, <<Num(3), Num(4)>>)),
            KV("a", Str(<<"y">>))},
     n \in {Absent,
            KV("n", Obj(<<KV("b", Num(3)), KV("c", Num(4))>>)),
            KV("n", Obj(<<KV("a", Directive(sPrepend, <<Num(5)>>))>>)),
            KV("n", Str(<<"z">>))},
     s \in {Absent, KV("s", Obj(<<KV("q", Num(1))>>)), KV("e", Num(5))}}

NotMerged == Num(0)

MergerIdle ==
  /\ mbase = Obj(<<>>)
  /\ moverlay = Obj(<<>>)
  /\ mstrategy = "replace"
  /\ mpc = "off"
  /\ merged = NotMerged

MergeInit ==
  /\ mbase \in {Realloc(b, <<0, 1>>) : b \in MergeBases}
  /\ moverlay \in {Realloc(o, <<1, 1, 1>>) : o \in MergeOverlays}
  /\ mstrategy \in Strategies
  /\ mpc = "idle"
  /\ merged = NotMerged

\* deepMerge(base, overlay, createMergeContext(strategy))
Merge ==
  /\ mpc = "idle"
  /\ merged' = deepMerge(mbase, moverlay, createMergeContext(mstrategy), <<3>>)
  /\ mpc' = "merged"
  /\ UNCHANGED <<mbase, moverlay, mstrategy>>
  /\ UNCHANGED notM

\* ------------------------------------------------ RepositoryProcessor.process
\* One RepositoryProcessor, `process` invoked on it twice.  An invocation runs
\* from one await to the next without interruption; between two awaits the
\* other invocation may run.  GitOps instance g is the one invocation g
\* created, working in the workDir of invocation g.
Invocations == {1, 2}

\* repoConfig.files, by file name
ProcFiles == <<"f1", "f2">>

\* One call an invocation made: the method, the GitOps instance it was made
\* on (0: not a GitOps method), whether it returned, and what it was given
\* and gave back.
Made(op, on, ok, file, res, list) ==
  [op |-> op, on |-> on, ok |-> ok, file |-> file, res |-> res, list |-> list]
MadeOn(op, on, ok) == Made(op, on, ok, "", FALSE, <<>>)

Pending == [kind |-> "pending", success |-> FALSE, skipped |-> FALSE,
            message |-> ""]
\* { success: true, repoName, message: "No changes detected", skipped: true }
SkippedResult == [kind |-> "result", success |-> TRUE, skipped |-> TRUE,
                  message |-> "No changes detected"]
\* { success: prResult.success, repoName, message: prResult.message, prUrl }
PRResultOf(success) == [kind |-> "result", success |-> success,
                        skipped |-> FALSE, message |-> "prResult.message"]
Rejected(op) == [kind |-> "error", success |-> FALSE, skipped |-> FALSE,
                 message |-> op]

\* The error of the cleanup reaching the caller.
afterCleanupUncaught(outcome, cleanupThrew) ==
  IF cleanupThrew THEN Rejected("cleanWorkspace") ELSE outcome

\* try { this.gitOps.cleanWorkspace() } catch { }: what the caller observes
afterCleanup(outcome, cleanupThrew) == outcome

\* The early return left out.
skippedNever(hasChanges) == FALSE

\* if (!hasChanges) return
skipped(hasChanges) == ~hasChanges

\* The file written in dry-run mode as well.
writesFileAlways(dryRun) == TRUE

\* if (dryRun) { wouldChange } else { writeFile }
writesFile(dryRun) == ~dryRun

\* existsSync(filePath) ? "update" : "create"
actionOf(dir, fileName) == IF fileName \in dir THEN "update" ELSE "create"

\* The loop of step 5 over the first n files, on GitOps instance g: the
\* calls made, the files written and the changed files of a dry run.  W: the
\* files wouldChange answers true for.
RECURSIVE LoopCalls(_, _, _, _)
LoopCalls(n, g, dryRun, W) ==
  IF n = 0 THEN <<>>
  ELSE Append(LoopCalls(n - 1, g, dryRun, W),
              IF writesFile(dryRun)
                THEN Made("writeFile", g, TRUE, ProcFiles[n], FALSE, <<>>)
                ELSE Made("wouldChange", g, TRUE, ProcFiles[n],
                          ProcFiles[n] \in W, <<>>))

LoopWritten(n, dryRun) ==
  IF writesFile(dryRun) THEN {ProcFiles[k] : k \in 1..n} ELSE {}

LoopChanged(n, dir, dryRun, W) ==
  IF dryRun
    THEN LET hit == SelectSeq(SubSeq(ProcFiles, 1, n), LAMBDA f : f \in W)
         IN  [k \in DOMAIN hit |->
                [fileName |-> hit[k], action |-> actionOf(dir, hit[k])]]
    ELSE <<>>

\* The list rebuilt in step 6 once hasChanges() answered true.
Rebuilt(dir) ==
  [k \in DOMAIN ProcFiles |->
     [fileName |-> ProcFiles[k], action |-> actionOf(dir, ProcFiles[k])]]

\* An invocation goes on to its next await.
Advance(p, made, dirs, at) ==
  /\ calls' = [calls EXCEPT ![p] = @ \o made]
  /\ workDirs' = dirs
  /\ ppc' = [ppc EXCEPT ![p] = at]
  /\ UNCHANGED <<settled, original>>

\* An invocation leaves the try block: the finally clause cleans the
\* workspace of this.gitOps (g) and the promise settles.
Finish(p, made, dirs, outcome, g, cleanupThrew) ==
  /\ calls' = [calls EXCEPT ![p] =
       @ \o made \o (IF g # 0
                       THEN <<MadeOn("cleanWorkspace", g, ~cleanupThrew)>>
                       ELSE <<>>)]
  /\ workDirs' = IF g # 0 /\ ~cleanupThrew THEN [dirs EXCEPT ![g] = {}]
                 ELSE dirs
  /\ ppc' = [ppc EXCEPT ![p] = "done"]
  /\ original' = [original EXCEPT ![p] = outcome]
  /\ settled' = [settled EXCEPT ![p] = afterCleanup(outcome, cleanupThrew)]

\* process(...) is invoked: lines 51-63, up to `await this.gitOps.clone`.
Start(p, ok, cleanupThrew) ==
  /\ ppc[p] = "new"
  /\ thisGitOps' = p
  /\ IF ok
       THEN Advance(p, <<MadeOn("cleanWorkspace", p, TRUE),
                         MadeOn("clone", p, TRUE)>>,
                    [workDirs EXCEPT ![p] = {}], "clone")
       ELSE Finish(p, <<MadeOn("cleanWorkspace", p, FALSE)>>, workDirs,
                   Rejected("cleanWorkspace"), p, cleanupThrew)
  /\ UNCHANGED <<dryRunOf, repoFiles, changedFiles, hasChangesOf, existed>>
  /\ UNCHANGED notP

\* clone settles: lines 66-67, up to `await this.gitOps.getDefaultBranch()`.
AfterClone(p, ok, cleanupThrew) ==
  /\ ppc[p] = "clone"
  /\ IF ok
       THEN Advance(p, <<MadeOn("getDefaultBranch", thisGitOps, TRUE)>>,
                    [workDirs EXCEPT ![p] = repoFiles], "branch")
       ELSE Finish(p, <<>>, workDirs, Rejected("clone"), thisGitOps,
                   cleanupThrew)
  /\ UNCHANGED <<thisGitOps, dryRunOf, repoFiles, changedFiles, hasChangesOf,
                 existed>>
  /\ UNCHANGED notP

\* getDefaultBranch settles: lines 68-74, up to `await createBranch`.
AfterDefaultBranch(p, ok, cleanupThrew) ==
  /\ ppc[p] = "branch"
  /\ IF ok
       THEN Advance(p, <<MadeOn("createBranch", thisGitOps, TRUE)>>, workDirs,
                    "create")
       ELSE Finish(p, <<>>, workDirs, Rejected("getDefaultBranch"),
                   thisGitOps, cleanupThrew)
  /\ UNCHANGED <<thisGitOps, dryRunOf, repoFiles, changedFiles, hasChangesOf,
                 existed>>
  /\ UNCHANGED notP

\* createBranch settles: the loop of step 5 and step 6, lines 77-131, up to
\* `await hasChanges()` (normal mode) or `await commit` (dry run).  failAt:
\* the file at which writeFile or wouldChange throws (0: none).
AfterCreateBranch(p, ok, W, failAt, cleanupThrew) ==
  /\ ppc[p] = "create"
  /\ LET g == thisGitOps
         dryRun == dryRunOf[p]
         n == IF failAt = 0 THEN Len(ProcFiles) ELSE failAt - 1
         made == LoopCalls(n, g, dryRun, W)
         dirs == [workDirs EXCEPT ![g] = @ \cup LoopWritten(n, dryRun)]
         changed == LoopChanged(n, workDirs[p], dryRun, W)
         failing == IF writesFile(dryRun) THEN "writeFile" ELSE "wouldChange"
     IN  IF ~ok
           THEN /\ Finish(p, <<>>, workDirs, Rejected("createBranch"), g,
                          cleanupThrew)
                /\ UNCHANGED <<changedFiles, hasChangesOf, existed>>
         ELSE /\ existed' = [existed EXCEPT ![p] = workDirs[p]]
              /\ changedFiles' = [changedFiles EXCEPT ![p] = changed]
              /\ hasChangesOf' =
                   IF failAt = 0 /\ dryRun
                     THEN [hasChangesOf EXCEPT ![p] = <<Len(changed) > 0>>]
                     ELSE hasChangesOf
              /\ IF failAt # 0
                   THEN Finish(p, Append(made, Made(failing, g, FALSE,
                                                    ProcFiles[failAt], FALSE, <<>>)),
                               dirs, Rejected(failing), g, cleanupThrew)
                 ELSE IF ~dryRun
                   THEN Advance(p, Append(made, MadeOn("hasChanges", g, TRUE)),
                                dirs, "changes")
                 ELSE IF skipped(Len(changed) > 0)
                   THEN Finish(p, made, dirs, SkippedResult, g, cleanupThrew)
                 ELSE Advance(p, Append(made,
                                Made("commit", g, TRUE, "", FALSE, changed)),
                              dirs, "commit")
  /\ UNCHANGED <<thisGitOps, dryRunOf, repoFiles>>
  /\ UNCHANGED notP

\* hasChanges settles (normal mode): lines 105-136, up to `await commit`.
AfterHasChanges(p, ok, answer, cleanupThrew) ==
  /\ ppc[p] = "changes"
  /\ LET g == thisGitOps
         changed == IF answer THEN changedFiles[p] \o Rebuilt(workDirs[p])
                    ELSE changedFiles[p]
     IN  IF ~ok
           THEN /\ Finish(p, <<>>, workDirs, Rejected("hasChanges"), g,
                          cleanupThrew)
                /\ UNCHANGED <<changedFiles, hasChangesOf>>
         ELSE /\ changedFiles' = [changedFiles EXCEPT ![p] = changed]
              /\ hasChangesOf' = [hasChangesOf EXCEPT ![p] = <<answer>>]
              /\ IF skipped(answer)
                   THEN Finish(p, <<>>, workDirs, SkippedResult, g, cleanupThrew)
                   ELSE Advance(p, <<Made("commit", g, TRUE, "", FALSE, changed)>>,
                                workDirs, "commit")
  /\ UNCHANGED <<thisGitOps, dryRunOf, repoFiles, existed>>
  /\ UNCHANGED notP

\* commit settles: lines 138-140, up to `await this.gitOps.push`.
AfterCommit(p, ok, cleanupThrew) ==
  /\ ppc[p] = "commit"
  /\ IF ok
       THEN Advance(p, <<MadeOn("push", thisGitOps, TRUE)>>, workDirs, "push")
       ELSE Finish(p, <<>>, workDirs, Rejected("commit"), thisGitOps,
                   cleanupThrew)
  /\ UNCHANGED <<thisGitOps, dryRunOf, repoFiles, changedFiles, hasChangesOf,
                 existed>>
  /\ UNCHANGED notP

\* push settles: lines 142-152, up to `await createPR`.
AfterPush(p, ok, cleanupThrew) ==
  /\ ppc[p] = "push"
  /\ IF ok
       THEN Advance(p, <<Made("createPR", 0, TRUE, "", FALSE, changedFiles[p])>>,
                    workDirs, "pr")
       ELSE Finish(p, <<>>, workDirs, Rejected("push"), thisGitOps,
                   cleanupThrew)
  /\ UNCHANGED <<thisGitOps, dryRunOf, repoFiles, changedFiles, hasChangesOf,
                 existed>>
  /\ UNCHANGED notP

\* createPR settles: lines 154-169, the return and the finally clause.
AfterCreatePR(p, ok, success, cleanupThrew) ==
  /\ ppc[p] = "pr"
  /\ Finish(p, <<>>, workDirs,
            IF ok THEN PRResultOf(success) ELSE Rejected("createPR"),
            thisGitOps, cleanupThrew)
  /\ UNCHANGED <<thisGitOps, dryRunOf, repoFiles, changedFiles, hasChangesOf,
                 existed>>
  /\ UNCHANGED notP

ProcessorIdle ==
  /\ thisGitOps = 0
  /\ ppc = [p \in Invocations |-> "off"]
  /\ dryRunOf = [p \in Invocations |-> FALSE]
  /\ repoFiles = {}
  /\ workDirs = [p \in Invocations |-> {}]
  /\ changedFiles = [p \in Invocations |-> <<>>]
  /\ hasChangesOf = [p \in Invocations |-> <<>>]
  /\ existed = [p \in Invocations |-> {}]
  /\ calls = [p \in Invocations |-> <<>>]
  /\ settled = [p \in Invocations |-> Pending]
  /\ original = [p \in Invocations |-> Pending]

\* private gitOps: GitOps | null = null; two invocations not yet made.  The
\* remote repository holds none of the files, or the first of them.
ProcInit ==
  /\ thisGitOps = 0
  /\ ppc = [p \in Invocations |-> "new"]
  /\ dryRunOf \in [Invocations -> BOOLEAN]
  /\ repoFiles \in {{}, {ProcFiles[1]}}
  /\ workDirs = [p \in Invocations |-> {}]
  /\ changedFiles = [p \in Invocations |-> <<>>]
  /\ hasChangesOf = [p \in Invocations |-> <<>>]
  /\ existed = [p \in Invocations |-> {}]
  /\ calls = [p \in Invocations |-> <<>>]
  /\ settled = [p \in Invocations |-> Pending]
  /\ original = [p \in Invocations |-> Pending]

\* ------------------------------------------------------ the specifications
\* The environments differ in U alone: both are tried where the document
\* reads U, one where it does not.
Init ==
  /\ raw \in {Parsed(d) : d \in Documents}
  /\ raw0 = raw
  /\ env \in EnvChoices
  /\ RefersToU(raw) \/ <<"U">> \notin DOMAIN env
  /\ pc = "idle"
  /\ call = 0
  /\ ri = 1 /\ ui = 1 /\ fi = 1
  /\ files = <<>>
  /\ expandedRepos = <<>>
  /\ result = NoConfig
  /\ outcomes = <<>>
  /\ touched = 0
  /\ LoaderIdle
  /\ InterpIdle
  /\ MergerIdle
  /\ ProcessorIdle

Next ==
  \/ Call
  \/ SkipFile
  \/ PushFile
  \/ Throw
  \/ PushRepo
  \/ NextRepo
  \/ Return
  \/ Mutate

Spec == Init /\ [][Next]_vars

\* The normalizer at rest while another part runs.
NormalizerIdle ==
  /\ raw = [mergeStrategy |-> "undefined", files |-> <<>>, repos |-> <<>>]
  /\ raw0 = raw
  /\ env = (<<"A">> :> Defined(<<"v">>))
  /\ pc = "off"
  /\ call = 0
  /\ ri = 1 /\ ui = 1 /\ fi = 1
  /\ files = <<>>
  /\ expandedRepos = <<>>
  /\ result = NoConfig
  /\ outcomes = <<>>
  /\ touched = 0

\* loadConfig(filePath), from the parsed document on.
LoadInit ==
  /\ config \in RawConfigs
  /\ lpc = "fileName"
  /\ vi = 0
  /\ hasRootJson = FALSE
  /\ thrown = NotThrown
  /\ baseJson = JsUndefined
  /\ NormalizerIdle
  /\ InterpIdle
  /\ MergerIdle
  /\ ProcessorIdle

LoadNext ==
  \/ CheckFileName
  \/ CheckRepos
  \/ CheckRepo
  \/ Validate
  \/ Normalize

SpecLoad == LoadInit /\ [][LoadNext]_vars

InterpStart ==
  InterpInit /\ NormalizerIdle /\ LoaderIdle /\ MergerIdle /\ ProcessorIdle

InterpNext == Interpolate

SpecInterp == InterpStart /\ [][InterpNext]_vars

MergeStart ==
  MergeInit /\ NormalizerIdle /\ LoaderIdle /\ InterpIdle /\ ProcessorIdle

MergeNext == Merge

SpecMerge == MergeStart /\ [][MergeNext]_vars

ProcStart ==
  ProcInit /\ NormalizerIdle /\ LoaderIdle /\ InterpIdle /\ MergerIdle

ProcNext ==
  \E p \in Invocations, ok \in BOOLEAN, cleanupThrew \in BOOLEAN :
    \/ Start(p, ok, cleanupThrew)
    \/ AfterClone(p, ok, cleanupThrew)
    \/ AfterDefaultBranch(p, ok, cleanupThrew)
    \/ \E W \in SUBSET {ProcFiles[k] : k \in DOMAIN ProcFiles},
          failAt \in 0..Len(ProcFiles) :
         AfterCreateBranch(p, ok, W, failAt, cleanupThrew)
    \/ \E answer \in BOOLEAN :
         AfterHasChanges(p, ok, answer, cleanupThrew)
    \/ AfterCommit(p, ok, cleanupThrew)
    \/ AfterPush(p, ok, cleanupThrew)
    \/ \E success \in BOOLEAN : AfterCreatePR(p, ok, success, cleanupThrew)

SpecProc == ProcStart /\ [][ProcNext]_vars

\* ----------------------------------------------------------------- claims
\* The URLs raw repo r declares, read off the document as parsed.
DeclaredUrls(r) ==
  IF raw0.repos[r].git.t = "array" THEN raw0.repos[r].git.el
  ELSE <<raw0.repos[r].git.s>>

\* How many output entries precede those of raw repo r.
Offset(r) == Len(Flatten([q \in 1..(r - 1) |-> DeclaredUrls(q)]))

\* The raw repo the e-th output entry was expanded from.
RawIndexOf(e) ==
  CHOOSE r \in DOMAIN raw0.repos :
    Offset(r) < e /\ e <= Offset(r) + Len(DeclaredUrls(r))

\* The spec of the declared file called name.
FileNamed(name) ==
  raw0.files[CHOOSE f \in DOMAIN raw0.files : raw0.files[f].fileName = name]

\* The override raw repo r holds for the file called name.
OverrideIn(r, name) == repoOverrideOf(raw0.repos[r], name)

LastOutcome == outcomes[Len(outcomes)]

EntryIds(entry) ==
  UNION {ContainerIds(entry.files[j].content) : j \in DOMAIN entry.files}
ResultIds == UNION {EntryIds(result.repos[e]) : e \in DOMAIN result.repos}
DocIds(doc) ==
  UNION {ContainerIds(doc.files[f].content.v) : f \in DOMAIN doc.files}
  \cup UNION {UNION {ContainerIds(doc.repos[r].files[n].ov.content.v) :
                       n \in DOMAIN doc.repos[r].files} : r \in DOMAIN doc.repos}

\* C1: for every validated document and every normalization path, no content
\* of the returned Config holds an object with a $arrayMerge key, at any depth.
C1_DirectiveFree ==
  pc = "returned" =>
    \A e \in DOMAIN result.repos : \A j \in DOMAIN result.repos[e].files :
      ~ContainsDirective(result.repos[e].files[j].content)

\* C2: createOnly of every returned file is the repo-level override's value
\* when present, else the file's base-level value when present, else false;
\* never undefined.
C2_CreateOnlyBoolean ==
  pc = "returned" =>
    \A e \in DOMAIN result.repos : \A j \in DOMAIN result.repos[e].files :
      LET out == result.repos[e].files[j]
          ov == OverrideIn(RawIndexOf(e), out.fileName)
          spec == FileNamed(out.fileName)
      IN  /\ out.createOnly \in {"true", "false"}
          /\ out.createOnly =
               IF ov.createOnly # "undefined" THEN ov.createOnly
               ELSE IF spec.createOnly # "undefined" THEN spec.createOnly
               ELSE "false"

\* C3: no two entries of the returned Config share a container at any depth,
\* and after the caller has written to a container of one entry every other
\* entry still holds the value it was returned with.
C3_EntriesIndependent ==
  /\ pc = "returned" =>
       \A a, b \in DOMAIN result.repos :
         a # b => EntryIds(result.repos[a]) \cap EntryIds(result.repos[b]) = {}
  /\ pc = "mutated" =>
       \A b \in DOMAIN result.repos :
         b # touched => PlainRepos(result.repos)[b] = LastOutcome.repos[b]

\* The caller wrote into one of several entries expanded from one git array,
\* and that entry changed.
C3_Witness ==
  /\ pc = "mutated"
  /\ Len(DeclaredUrls(RawIndexOf(touched))) >= 2
  /\ PlainRepos(result.repos)[touched] # LastOutcome.repos[touched]

\* C4: the git values of the returned repos are the concatenation, in document
\* order, of each raw entry's URLs (a string counting as one URL), and entries
\* expanded from the same raw entry have value-equal files.
C4_GitExpansion ==
  pc = "returned" =>
    /\ [e \in DOMAIN result.repos |-> result.repos[e].git]
         = Flatten([r \in DOMAIN raw0.repos |-> DeclaredUrls(r)])
    /\ \A a, b \in DOMAIN result.repos :
         RawIndexOf(a) = RawIndexOf(b) =>
           PlainFiles(result.repos[a].files) = PlainFiles(result.repos[b].files)

\* A string target followed or preceded by an array of several URLs, expanded.
C4_Witness ==
  /\ pc = "returned"
  /\ \E r \in DOMAIN raw0.repos : raw0.repos[r].git.t = "string"
  /\ \E r \in DOMAIN raw0.repos :
       /\ raw0.repos[r].git.t = "array"
       /\ Len(raw0.repos[r].git.el) >= 2
       /\ result.repos[Offset(r) + 1].files # <<>>

\* C5: in override mode the resolved content is the repo's content with
\* directives stripped and env vars interpolated; it has no key but those.
C5_OverrideIgnoresBase ==
  pc = "returned" =>
    \A e \in DOMAIN result.repos : \A j \in DOMAIN result.repos[e].files :
      LET out == result.repos[e].files[j]
          ov == OverrideIn(RawIndexOf(e), out.fileName)
          stripped == stripMergeDirectives(ov.content.v)
      IN  (ov.kind = "object" /\ ov.override = "true" /\ ov.content.def) =>
            /\ PlainValue(out.content)
                 = PlainValue(interpolateEnvVars(stripped, env, TRUE).v)
            /\ Keys(out.content) \subseteq Keys(stripped)

\* An override-mode file whose base content has keys the result lacks.
C5_Witness ==
  /\ pc = "returned"
  /\ \E e \in DOMAIN result.repos : \E j \in DOMAIN result.repos[e].files :
       LET out == result.repos[e].files[j]
           ov == OverrideIn(RawIndexOf(e), out.fileName)
       IN  /\ ov.kind = "object" /\ ov.override = "true" /\ ov.content.def
           /\ FileNamed(out.fileName).content.def
           /\ Keys(FileNamed(out.fileName).content.v) \ Keys(out.content) # {}

\* The strategy C6 names: the file's, else the document's default, else replace.
ClaimedStrategy(doc, spec) ==
  IF spec.mergeStrategy # "undefined" THEN spec.mergeStrategy
  ELSE IF doc.mergeStrategy # "undefined" THEN doc.mergeStrategy
  ELSE "replace"

\* C6: in merge mode a plain array of the repo content at a key where the base
\* holds an array is combined by the file's mergeStrategy if set, else the
\* document-level default if set, else replace.
C6_ArrayStrategy ==
  pc = "returned" =>
    \A e \in DOMAIN result.repos : \A j \in DOMAIN result.repos[e].files :
      LET out == result.repos[e].files[j]
          ov == OverrideIn(RawIndexOf(e), out.fileName)
          spec == FileNamed(out.fileName)
      IN  (modeOf(ov) = "merge" /\ spec.content.def) =>
            \A k \in Keys(spec.content.v) \cap Keys(ov.content.v) :
              (isArray(ValueAt(spec.content.v, k))
                 /\ isArray(ValueAt(ov.content.v, k))) =>
                PlainValue(ValueAt(out.content, k))
                  = PlainValue(Arr(mergeArrays(ValueAt(spec.content.v, k).el,
                                               ValueAt(ov.content.v, k).el,
                                               ClaimedStrategy(raw0, spec))))

RECURSIVE MissingPlainIn(_, _)
MissingPlainIn(v, e) ==
  IF v.t = "str"
    THEN \E i \in DOMAIN Occurrences(v.s, 1) :
           /\ Occurrences(v.s, 1)[i].kind = "plain"
           /\ ~EnvLookup(e, Occurrences(v.s, 1)[i].name).def
  ELSE IF v.t = "obj" THEN \E i \in DOMAIN v.kv : MissingPlainIn(v.kv[i].v, e)
  ELSE IF v.t = "arr" THEN \E i \in DOMAIN v.el : MissingPlainIn(v.el[i], e)
  ELSE FALSE

\* Some (repo, file) pair has a computed content with such a reference.
SomePairMissesVar ==
  \E r \in DOMAIN raw0.repos : \E f \in DOMAIN raw0.files :
    /\ OverrideIn(r, raw0.files[f].fileName).kind # "false"
    /\ MissingPlainIn(mergedContentAt(raw0, 1, r, 1, f), env)

\* C8: when the computed content of any (repo, file) pair refers to an
\* undefined variable with plain ${NAME}, the call throws and returns no
\* Config, not even the entries computed before.
C8_AbortsWhole ==
  (pc \in {"returned", "threw", "mutated"} /\ SomePairMissesVar) =>
    /\ pc = "threw"
    /\ result = NoConfig
    /\ LastOutcome.repos = <<>>

\* The call threw on a missing variable after an earlier raw repo was expanded.
C8_Witness ==
  /\ pc = "threw"
  /\ ri >= 2
  /\ LastOutcome.err.kind = "missing"

\* C9: after a call, returned or thrown, the raw document is value-equal to
\* what it was, and no container reachable from the returned Config is
\* reachable from the raw document (so a write to the output leaves it intact).
C9_InputUntouched ==
  /\ pc \in {"returned", "threw", "mutated"} => PlainDoc(raw) = PlainDoc(raw0)
  /\ result.def => ResultIds \cap DocIds(raw) = {}

\* The caller wrote into an entry that inherits a base content with nested
\* containers.
C9_Witness ==
  /\ pc = "mutated"
  /\ \E j \in DOMAIN result.repos[touched].files :
       LET out == result.repos[touched].files[j]
       IN  /\ modeOf(OverrideIn(RawIndexOf(touched), out.fileName)) = "inherit"
           /\ Cardinality(ContainerIds(FileNamed(out.fileName).content.v)) >= 2
           /\ PlainValue(out.content)
                # LastOutcome.repos[touched].files[j].content

\* C10: calls of normalizeConfig on the same document under the same
\* environment end the same way with value-equal Configs.
C10_Deterministic ==
  \A i, j \in DOMAIN outcomes : outcomes[i] = outcomes[j]

\* Two calls have returned a Config of several repos.
C10_Witness ==
  /\ Len(outcomes) >= 2
  /\ outcomes[1].how = "returned"
  /\ Len(outcomes[1].repos) >= 2
  /\ outcomes[2].how = "returned"

\* ------------------------------------------- claims about the validator
\* The repo entry at (0-based) index k of config.repos.
RepoAt(k) == config.repos.el[k + 1]

\* validateRawConfig threw inside its loop over config.repos.
LoopThrew == lpc = "threw" /\ thrown # ErrFileName /\ thrown # ErrRepos

\* The loop over config.repos has been entered.
Scanning == lpc \in {"loop", "normalize", "normalizing"} \/ LoopThrew

\* What makes a repo entry invalid, as the documentation states it.
GitMissing(repo) ==
  repo.git.t = "undefined" \/ (repo.git.t = "str" /\ repo.git.s = <<>>)
GitEmptyArray(repo) == repo.git.t = "arr" /\ repo.git.el = <<>>
GitPresent(repo) == ~GitMissing(repo) /\ ~GitEmptyArray(repo)
NeitherDefined(repo) ==
  config.json.t = "undefined" /\ repo.json.t = "undefined"
OverrideBare(repo) == repo.override = JsTrue /\ repo.json.t = "undefined"
InvalidEntry(repo) ==
  GitMissing(repo) \/ GitEmptyArray(repo) \/ NeitherDefined(repo)
  \/ OverrideBare(repo)

\* The first URL a repo entry declares.
FirstUrl(repo) == IF repo.git.t = "arr" THEN repo.git.el[1].s ELSE repo.git.s

\* C11: when validation fails on a repo entry, the entry the error is about
\* is the lowest-index invalid entry of the document: no entry before it is
\* invalid, and an error that carries an index carries that one.
C11_LowestIndex ==
  LoopThrew =>
    /\ InvalidEntry(RepoAt(vi))
    /\ \A k \in 0..(vi - 1) : ~InvalidEntry(RepoAt(k))
    /\ thrown.index # -1 => thrown.index = vi

EmptyGitArrayText == "Repo at index ${i} has empty git array"

\* C12: a repo entry without git (absent or the empty string) is rejected with
\* the missing-git error of its index, one whose git is an empty array with
\* the empty-git-array error of its index; an entry is let through only with
\* a non-empty string or a non-empty array, which never draws a git error.
C12_GitField ==
  Scanning =>
    /\ \A k \in 0..(vi - 1) : GitPresent(RepoAt(k))
    /\ LoopThrew =>
         /\ GitMissing(RepoAt(vi)) => thrown = ErrGit(vi)
         /\ GitEmptyArray(RepoAt(vi)) =>
              thrown.text = EmptyGitArrayText /\ thrown.index = vi
         /\ GitPresent(RepoAt(vi)) =>
              thrown.text \notin {ErrGit(vi).text, EmptyGitArrayText}

\* The check of config.repos has acted.
ReposChecked == lpc \notin {"fileName", "repos"} /\ thrown # ErrFileName

\* C13 as stated: repos passes the check exactly when it is a non-empty
\* sequence; missing, null, a non-sequence and the empty sequence are refused.
C13_ReposNonEmpty ==
  ReposChecked =>
    (thrown = ErrRepos
       <=> ~(isArray(config.repos) /\ config.repos.el # <<>>))

\* C13, amended: repos passes the check exactly when it is a sequence, the
\* empty one included; missing, null and a non-sequence are refused.
C13_ReposArray ==
  ReposChecked => (thrown = ErrRepos <=> ~isArray(config.repos))

C13_Witness ==
  /\ lpc = "normalizing"
  /\ isArray(config.repos)
  /\ config.repos.el = <<>>

\* C14: a repo entry that reaches the content check fails with the
\* missing-content error of its index exactly when neither the base content
\* nor its own content is defined; every entry the scan has passed had one of
\* the two.
C14_MissingContent ==
  Scanning =>
    /\ \A k \in 0..(vi - 1) : ~NeitherDefined(RepoAt(k))
    /\ LoopThrew /\ thrown # ErrGit(vi) =>
         (thrown = ErrJson(vi) <=> NeitherDefined(RepoAt(vi)))

C14_Witness ==
  /\ LoopThrew
  /\ vi = 1
  /\ thrown = ErrJson(1)
  /\ RepoAt(0).json.t = "obj"
  /\ NeitherDefined(RepoAt(1))

\* C15: no entry with override: true and no content gets through; the
\* override error is raised only for such an entry, and it carries the first
\* git URL of that entry (the string, or element 0 of the array).
C15_OverrideNeedsContent ==
  Scanning =>
    /\ \A k \in 0..(vi - 1) : ~OverrideBare(RepoAt(k))
    /\ LoopThrew /\ thrown.text = ErrOverride(<<>>).text =>
         /\ OverrideBare(RepoAt(vi))
         /\ GitPresent(RepoAt(vi)) => thrown.name = FirstUrl(RepoAt(vi))

C15_Witness ==
  /\ LoopThrew
  /\ thrown = ErrOverride(sU2)
  /\ RepoAt(vi).git = Arr(<<Str(sU2), Str(sU1)>>)
  /\ \E k \in 0..(vi - 1) :
       RepoAt(k).override = JsTrue /\ RepoAt(k).json.t = "obj"

\* C16: a document gets past the validator only with a base content that is
\* absent or a mapping, so normalizeConfig starts from a mapping.
C16_BaseContentMapping ==
  /\ lpc \in {"normalize", "normalizing"} =>
       config.json.t \in {"undefined", "obj"}
  /\ lpc = "normalizing" => isPlainObject(baseJson)

\* The segments of a path, split at "/".
RECURSIVE Segments(_)
Segments(s) ==
  IF \A i \in DOMAIN s : s[i] # "/" THEN <<s>>
  ELSE LET i == CHOOSE i \in DOMAIN s :
                  s[i] = "/" /\ \A j \in 1..(i - 1) : s[j] # "/"
       IN  <<SubSeq(s, 1, i - 1)>> \o Segments(SubSeq(s, i + 1, Len(s)))

EmptyName(n) == n.t # "str" \/ n.s = <<>>
TraversalName(n) ==
  n.t = "str" /\ \E k \in DOMAIN Segments(n.s) : Segments(n.s)[k] = <<".", ".">>
AbsoluteName(n) == n.t = "str" /\ n.s # <<>> /\ n.s[1] = "/"
ControlName(n) == n.t = "str" /\ \E i \in DOMAIN n.s : n.s[i] \in {LF, CR, NUL}

NameClass(n) ==
  IF EmptyName(n) THEN "empty"
  ELSE IF TraversalName(n) THEN "traversal"
  ELSE IF AbsoluteName(n) THEN "absolute"
  ELSE IF ControlName(n) THEN "control"
  ELSE "safe"

\* C17: the file-name check refuses exactly the names that are empty, hold a
\* ".." segment, are absolute or hold a newline, carriage return or null byte.
C17_FileNameSafe ==
  lpc # "fileName" =>
    (thrown = ErrFileName <=> NameClass(config.fileName) # "safe")

\* C18: a name of one violation class is refused with a message that no name
\* of another violation class draws.
C18_DistinctMessages ==
  lpc # "fileName" /\ NameClass(config.fileName) # "safe" =>
    /\ thrown = fileNameError(config.fileName)
    /\ thrown # NotThrown
    /\ \A n \in FileNameChoices :
         NameClass(n) \notin {"safe", NameClass(config.fileName)} =>
           fileNameError(n).text # thrown.text

\* The checks in the documented precedence: 1 base content type, 2 repos and
\* git shape, 3 missing content and override without content, 4
\* mergeStrategy, 5 file name.
ViolatedChecks(c) ==
  (IF c.json.t \notin {"undefined", "obj"} THEN {1} ELSE {})
  \cup (IF ~isArray(c.repos) THEN {2}
        ELSE IF c.repos.el = <<>> THEN {2}
        ELSE (IF \E k \in DOMAIN c.repos.el : ~GitPresent(c.repos.el[k])
                THEN {2} ELSE {})
             \cup (IF \E k \in DOMAIN c.repos.el :
                        \/ c.json.t = "undefined" /\ c.repos.el[k].json.t = "undefined"
                        \/ OverrideBare(c.repos.el[k])
                     THEN {3} ELSE {}))
  \cup (IF c.mergeStrategy.t # "undefined" THEN {4} ELSE {})
  \cup (IF NameClass(c.fileName) # "safe" THEN {5} ELSE {})

\* The check an error belongs to.
CheckOf(err) ==
  IF err = ErrFileName THEN 5
  ELSE IF err = ErrRepos \/ err.text = ErrGit(0).text THEN 2
  ELSE 3

\* C19: the error raised is that of the earliest violated check in the
\* documented precedence.
C19_Precedence ==
  lpc = "threw" => CheckOf(thrown) = SetMin(ViolatedChecks(config))

\* --------------------------------------- claims about the env interpolator
\* What the parts of a string written from literals and ${NAME:-default}
\* expressions stand for: the value of NAME when it is set, the default text
\* otherwise.
DefaultExpansion(ps, e) ==
  Flatten([k \in DOMAIN ps |->
    IF ps[k].kind = "literal" THEN ps[k].text
    ELSE IF ps[k].name \in DOMAIN e THEN e[ps[k].name].val
    ELSE ps[k].arg])

OnlyDefaults(ps) ==
  /\ \A k \in DOMAIN ps : ps[k].kind \in {"literal", "default"}
  /\ \E k \in DOMAIN ps : ps[k].kind = "default"

\* C20: a string of ${NAME:-default} expressions is interpolated without
\* error, strict or not; each expression gives the value of NAME when NAME is
\* set (the empty string when it is set to that) and the default text only
\* when NAME is not set.
C20_DefaultForm ==
  ipc # "idle" /\ OnlyDefaults(parts) =>
    /\ ipc = "returned"
    /\ ValueAt(interpolated.v, "key") = Str(DefaultExpansion(parts, ienv))

C20_Witness ==
  /\ ipc = "returned"
  /\ igiven /\ ~istrict
  /\ parts = <<WithDefault(sE, <<"d">>), WithDefault(sU, <<>>)>>
  /\ sU \notin DOMAIN ienv
  /\ ValueAt(interpolated.v, "key") = Str(<<>>)

\* Whether the call is strict: asked for, or no option given.
StrictCall == ~igiven \/ istrict

\* The occurrences that make the call fail: a ${NAME:?message} of an unset
\* NAME, and in a strict call a plain ${NAME} of an unset NAME.
FailsAt(ps, k) ==
  /\ ps[k].name \notin DOMAIN ienv
  /\ ps[k].kind = "required" \/ (ps[k].kind = "plain" /\ StrictCall)

Failing(ps) == {k \in DOMAIN ps : FailsAt(ps, k)}

\* What a string stands for when no occurrence fails: set variables give
\* their value, an unset one its default text, or its own placeholder text.
Expansion(ps) ==
  Flatten([k \in DOMAIN ps |->
    IF ps[k].kind = "literal" THEN ps[k].text
    ELSE IF ps[k].name \in DOMAIN ienv THEN ienv[ps[k].name].val
    ELSE IF ps[k].kind = "default" THEN ps[k].arg
    ELSE ps[k].text])

\* C21: in a string with a ${NAME:?message} expression, the expression gives
\* the value of NAME when NAME is set; when NAME is not set the call fails,
\* strict or not, and the error of the first failing expression, when it is
\* of this form, carries its NAME and its message.
C21_RequiredForm ==
  ipc # "idle" /\ (\E k \in DOMAIN parts : parts[k].kind = "required") =>
    IF Failing(parts) = {}
      THEN /\ ipc = "returned"
           /\ ValueAt(interpolated.v, "key") = Str(Expansion(parts))
      ELSE /\ ipc = "threw"
           /\ LET p == parts[SetMin(Failing(parts))]
              IN  p.kind = "required" =>
                    interpolated.err =
                      [kind |-> "required", name |-> p.name, msg |-> p.arg]

C21_Witness ==
  /\ ipc = "threw"
  /\ igiven /\ ~istrict
  /\ parts = <<Plain(sU), Required(sU, <<"m">>)>>
  /\ sU \notin DOMAIN ienv
  /\ interpolated.err = [kind |-> "required", name |-> sU, msg |-> <<"m">>]

\* C22: in a string with a plain ${NAME}, the expression gives the value of
\* NAME when NAME is set (the empty string included); when NAME is not set a
\* strict call (asked for, or no option given) fails with the missing-variable
\* error of NAME, and a non-strict call leaves the placeholder as written
\* and still replaces the other expressions of the string.
C22_PlainForm ==
  ipc # "idle" /\ (\E k \in DOMAIN parts : parts[k].kind = "plain") =>
    IF Failing(parts) = {}
      THEN /\ ipc = "returned"
           /\ ValueAt(interpolated.v, "key") = Str(Expansion(parts))
      ELSE /\ ipc = "threw"
           /\ LET p == parts[SetMin(Failing(parts))]
              IN  p.kind = "plain" =>
                    interpolated.err =
                      [kind |-> "missing", name |-> p.name, msg |-> <<>>]

\* A non-strict call that keeps a placeholder and replaces its neighbour.
C22_Witness ==
  /\ ipc = "returned"
  /\ igiven /\ ~istrict
  /\ parts = <<Plain(sU), Plain(sA)>>
  /\ sU \notin DOMAIN ienv
  /\ ValueAt(interpolated.v, "key") = Str(<<"$", "{", "U", "}", "v">>)

\* ------------------------------------------ claims about the merge engine
\* A value as plain data: a mapping as a function of its keys, whatever the
\* order of its entries and the identities of its containers.
RECURSIVE AsMap(_)
AsMap(v) ==
  IF v.t = "obj"
    THEN [t |-> "map", m |-> [k \in Keys(v) |-> AsMap(ValueAt(v, k))]]
  ELSE IF v.t = "arr"
    THEN [t |-> "seq", el |-> [i \in DOMAIN v.el |-> AsMap(v.el[i])]]
  ELSE v

\* No array at a key both mappings hold, at any depth.
RECURSIVE NoArrayClash(_, _)
NoArrayClash(b, o) ==
  \A k \in Keys(b) \cap Keys(o) :
    /\ ~isArray(ValueAt(b, k))
    /\ ~isArray(ValueAt(o, k))
    /\ isPlainObject(ValueAt(b, k)) /\ isPlainObject(ValueAt(o, k)) =>
         NoArrayClash(ValueAt(b, k), ValueAt(o, k))

\* The merge the claim describes: the union of the keys; the overlay's value
\* at its own keys, the base's at the base's own, the recursive merge where
\* both hold mappings, the overlay's value otherwise.
RECURSIVE ExpectedMerge(_, _)
ExpectedMerge(b, o) ==
  [t |-> "map",
   m |-> [k \in Keys(b) \cup Keys(o) |->
            IF k \notin Keys(o) THEN AsMap(ValueAt(b, k))
            ELSE IF k \notin Keys(b) THEN AsMap(ValueAt(o, k))
            ELSE IF isPlainObject(ValueAt(b, k)) /\ isPlainObject(ValueAt(o, k))
              THEN ExpectedMerge(ValueAt(b, k), ValueAt(o, k))
            ELSE AsMap(ValueAt(o, k))]]

\* C23 as stated: with no array at matching keys, deepMerge(base, overlay) is
\* the key-wise union described above.
C23_KeyUnion ==
  mpc = "merged" /\ NoArrayClash(mbase, moverlay) =>
    AsMap(merged) = ExpectedMerge(mbase, moverlay)

\* C23, amended: with no array at matching keys and no merge directive in the
\* overlay, deepMerge(base, overlay) is the key-wise union described above.
C23_KeyUnionOfPlainData ==
  mpc = "merged" /\ NoArrayClash(mbase, moverlay)
                 /\ ~ContainsDirective(moverlay) =>
    AsMap(merged) = ExpectedMerge(mbase, moverlay)

C23_Witness ==
  /\ mpc = "merged"
  /\ NoArrayClash(mbase, moverlay)
  /\ ~ContainsDirective(moverlay)
  /\ Keys(mbase) = {"a", "n", "s"}
  /\ Keys(moverlay) = {"a", "n", "e"}
  /\ isPlainObject(ValueAt(mbase, "n")) /\ isPlainObject(ValueAt(moverlay, "n"))
  /\ Keys(ValueAt(merged, "n")) = {"k", "b", "c"}

\* What a directive and the base array it meets (none: empty) resolve to.
Resolved(dir, baseEl) ==
  IF ValueAt(dir, "$arrayMerge").s = sAppend
    THEN Arr(baseEl \o ValueAt(dir, "values").el)
    ELSE Arr(ValueAt(dir, "values").el \o baseEl)

\* The directive at key k of overlay o resolves against base b as claimed.
DirectiveResolvedAt(b, o, res, k) ==
  HasKey(o, k) /\ isMergeDirective(ValueAt(o, k))
  /\ (HasKey(b, k) => isArray(ValueAt(b, k))) =>
    PlainValue(ValueAt(res, k)) =
      PlainValue(Resolved(ValueAt(o, k),
                          IF HasKey(b, k) THEN ValueAt(b, k).el ELSE <<>>))

\* C24: a directive in the overlay is resolved with its own strategy
\* whatever the ambient one: append gives the base array (empty when the
\* base lacks the key) followed by values, prepend values followed by the
\* base array, each part in its own order; at the top level and below a
\* mapping both sides hold.
C24_DirectiveWins ==
  mpc = "merged" =>
    /\ DirectiveResolvedAt(mbase, moverlay, merged, "a")
    /\ HasKey(mbase, "n") /\ HasKey(moverlay, "n")
       /\ isPlainObject(ValueAt(mbase, "n"))
       /\ isPlainObject(ValueAt(moverlay, "n")) =>
         DirectiveResolvedAt(ValueAt(mbase, "n"), ValueAt(moverlay, "n"),
                             ValueAt(merged, "n"), "a")

C24_Witness ==
  /\ mpc = "merged"
  /\ mstrategy = "replace"
  /\ HasKey(mbase, "a") /\ HasKey(moverlay, "a")
  /\ AsMap(ValueAt(mbase, "a")) = AsMap(Arr(<<Num(1), Num(2)>>))
  /\ AsMap(ValueAt(moverlay, "a")) = AsMap(Directive(sAppend, <<Num(3), Num(4)>>))
  /\ AsMap(ValueAt(merged, "a")) = AsMap(Arr(<<Num(1), Num(2), Num(3), Num(4)>>))

\* ---------------------------------------------------- the processor claims
Done(p) == ppc[p] = "done"

OpsOf(p) == {calls[p][k].op : k \in DOMAIN calls[p]}

LastCall(p) == calls[p][Len(calls[p])]

\* C25: every invocation that has ended made cleanWorkspace its last call,
\* after the calls of its try block, and settled with what the try block
\* ended with (the skipped result, the PR result or the error of the step
\* that threw), whether or not that last cleanup threw.
C25_CleanupLast ==
  \A p \in Invocations :
    Done(p) =>
      /\ Len(calls[p]) >= 2
      /\ LastCall(p).op = "cleanWorkspace"
      /\ original[p] # Pending
      /\ settled[p] = original[p]

\* The final cleanup threw after createPR answered, after the early return
\* and after a step rejected.
C25_Witness ==
  \E p \in Invocations :
    /\ Done(p)
    /\ ~LastCall(p).ok
    /\ "createPR" \in OpsOf(p)
    /\ settled[p] = PRResultOf(TRUE)

\* "No change is detected": a dry run's loop ended and no wouldChange
\* answered true; in normal mode hasChanges() answered false.
WouldChangeCalls(p) == SelectSeq(calls[p], LAMBDA c : c.op = "wouldChange")

NoChangeDetected(p) ==
  IF dryRunOf[p]
    THEN /\ Len(WouldChangeCalls(p)) = Len(ProcFiles)
         /\ \A k \in DOMAIN WouldChangeCalls(p) :
              WouldChangeCalls(p)[k].ok /\ ~WouldChangeCalls(p)[k].res
    ELSE hasChangesOf[p] = <<FALSE>>

Before(p, first, then) ==
  \A i \in DOMAIN calls[p] :
    calls[p][i].op = then =>
      \E j \in 1..(i - 1) : calls[p][j].op = first

\* C26: an invocation that detected no change settles with the skipped
\* result and calls none of commit, push and createPR; and every createPR
\* call follows a push, every push a commit.
C26_SkipOrPublish ==
  \A p \in Invocations :
    /\ NoChangeDetected(p) =>
         /\ Done(p)
         /\ settled[p] = SkippedResult
         /\ OpsOf(p) \cap {"commit", "push", "createPR"} = {}
    /\ Before(p, "push", "createPR")
    /\ Before(p, "commit", "push")

\* One invocation skipped in normal mode, the other went as far as createPR.
C26_Witness ==
  \E p, q \in Invocations :
    /\ ~dryRunOf[p]
    /\ NoChangeDetected(p)
    /\ settled[p] = SkippedResult
    /\ "createPR" \in OpsOf(q)

ChangedNames(p) == [k \in DOMAIN changedFiles[p] |-> changedFiles[p][k].fileName]

AnsweredTrue(p) ==
  LET hit == SelectSeq(WouldChangeCalls(p), LAMBDA c : c.ok /\ c.res)
  IN  [k \in DOMAIN hit |-> hit[k].file]

\* C27: a dry-run invocation calls neither writeFile nor hasChanges, and
\* its changed files are the files wouldChange answered true for.
C27_DryRunReadsOnly ==
  \A p \in Invocations :
    dryRunOf[p] =>
      /\ OpsOf(p) \cap {"writeFile", "hasChanges"} = {}
      /\ ChangedNames(p) = AnsweredTrue(p)

\* A dry run in which wouldChange answered true for one file and false for
\* another.
C27_Witness ==
  \E p \in Invocations :
    /\ dryRunOf[p]
    /\ Len(WouldChangeCalls(p)) = Len(ProcFiles)
    /\ Len(changedFiles[p]) = 1
    /\ "commit" \in OpsOf(p)

\* C28: in every list handed to commit (for its message) and to createPR, a
\* file's action is "create" exactly when the file was not in the work
\* directory before the invocation wrote it.
C28_ActionIsHistory ==
  \A p \in Invocations : \A i \in DOMAIN calls[p] :
    calls[p][i].op \in {"commit", "createPR"} =>
      \A k \in DOMAIN calls[p][i].list :
        calls[p][i].list[k].action =
          (IF calls[p][i].list[k].fileName \in existed[p]
             THEN "update" ELSE "create")

\* C29: every GitOps call of an invocation, its final cleanWorkspace
\* included, is made on the instance that invocation created.
C29_OwnInstance ==
  \A p \in Invocations : \A i \in DOMAIN calls[p] :
    calls[p][i].on # 0 => calls[p][i].on = p

\* ------------------------------------------- interpolation after selection
UndefinedU == <<"U">> \notin DOMAIN env

\* The reference ${U} occurs in the base content of file f ...
BaseRefersToU(f) ==
  raw.files[f].content.def /\ Mentions(raw.files[f].content.v, sRefU)

\* ... and in no repo-level content.
OnlyBaseRefersToU ==
  \A r \in DOMAIN raw.repos : \A n \in DOMAIN raw.repos[r].files :
    ~Mentions(raw.repos[r].files[n].ov.content.v, sRefU)

ModeAt(r, f) ==
  LET repoOverride == repoOverrideOf(raw.repos[r], raw.files[f].fileName)
  IN  IF repoOverride.kind = "false" THEN "excluded"
      ELSE IF repoOverride.kind = "object" /\ repoOverride.override = "true"
        THEN "override"
      ELSE IF repoOverride.kind = "object" /\ repoOverride.content.def
        THEN "merge"
      ELSE "inherit"

\* The overlay leaves a value of the base that holds ${U} in place: it has
\* no value at that key, or an object that is merged into the base's.
RECURSIVE KeepsRef(_, _)
KeepsRef(base, overlay) ==
  \E i \in DOMAIN base.kv :
    /\ Mentions(base.kv[i].v, sRefU)
    /\ \/ ~HasKey(overlay, base.kv[i].k)
       \/ /\ isPlainObject(base.kv[i].v)
          /\ isPlainObject(ValueAt(overlay, base.kv[i].k))
          /\ ~isMergeDirective(ValueAt(overlay, base.kv[i].k))
          /\ KeepsRef(base.kv[i].v, ValueAt(overlay, base.kv[i].k))

OverlayAt(r, f) ==
  repoOverrideOf(raw.repos[r], raw.files[f].fileName).content.v

NoRepoUsesBase ==
  \A f \in DOMAIN raw.files : \A r \in DOMAIN raw.repos :
    BaseRefersToU(f) => ModeAt(r, f) \in {"excluded", "override"}

SomeRepoUsesBase ==
  \E f \in DOMAIN raw.files : \E r \in DOMAIN raw.repos :
    BaseRefersToU(f) /\ ModeAt(r, f) \in {"inherit", "merge"}

SomeRepoKeepsRef ==
  \E f \in DOMAIN raw.files : \E r \in DOMAIN raw.repos :
    /\ BaseRefersToU(f)
    /\ \/ ModeAt(r, f) = "inherit"
       \/ /\ ModeAt(r, f) = "merge"
          /\ KeepsRef(raw.files[f].content.v, OverlayAt(r, f))

\* C30: with U undefined and ${U} in base content only, the call does not
\* throw when every repo excludes or overrides the files whose base holds
\* the reference, and does not return when some repo inherits or merges
\* such a base.
C30_AfterModeSelection ==
  (pc \in {"returned", "threw"} /\ UndefinedU /\ OnlyBaseRefersToU) =>
    /\ NoRepoUsesBase => pc # "threw"
    /\ SomeRepoUsesBase => pc # "returned"

\* C30 (amended): ... and does not return when some repo inherits such a
\* base, or merges it with content that leaves the value holding the
\* reference in place.
C30_AfterModeSelectionKept ==
  (pc \in {"returned", "threw"} /\ UndefinedU /\ OnlyBaseRefersToU) =>
    /\ NoRepoUsesBase => pc # "threw"
    /\ SomeRepoKeepsRef => pc # "returned"

\* The first raw repo overrides the file and is passed; the call throws at
\* the second, which merges the base and keeps the reference.
C30_Witness ==
  /\ UndefinedU /\ OnlyBaseRefersToU
  /\ pc = "threw"
  /\ ri = 2
  /\ BaseRefersToU(fi)
  /\ ModeAt(1, fi) = "override"
  /\ ModeAt(2, fi) = "merge"
  /\ KeepsRef(raw.files[fi].content.v, OverlayAt(2, fi))

====
